---- MODULE Spec2Model ----
(***************************************************************************)
(* Model of esp32-psram's HIMEM core: HimemBlock (the window manager that  *)
(* owns one himem region and one mapping window) and VectorHIMEM<T> (the   *)
(* growable array stored in a HimemBlock), src/esp32-psram/VectorHIMEM.h.  *)
(*                                                                         *)
(* The esp_himem_* calls are the hardware boundary.  They are modelled as  *)
(* a small allocator of regions and mapping ranges that may deny any       *)
(* request; every call an operation makes is appended to a log.            *)
(*                                                                         *)
(* Sizes are scaled: size_t arithmetic is modulo SIZE_MOD, a block has     *)
(* ESP_HIMEM_BLKSZ bytes, an element sizeofT bytes.  The physical himem    *)
(* is smaller than half the address space, as it is on the ESP32.          *)
(***************************************************************************)
EXTENDS Integers, Sequences, FiniteSets, TLC

VARIABLES hw, mgr, vec, ghost, last, steps, sizeofT, temps, initialized, fileData

\* sizeofT is sizeof(T) of the element type T that VectorHIMEM<T> is
\* instantiated with; it never changes.  temps holds the function-local
\* "static T temp" of each accessor of VectorHIMEM<T>: one object per accessor,
\* shared by every vector of the type.  initialized and fileData are the
\* members of the name registry (the object HIMEM of HIMEMClass, and likewise
\* PSRAM of PSRAMClass)
vars ==
  <<hw, mgr, vec, ghost, last, steps, sizeofT, temps, initialized, fileData>>

-----------------------------------------------------------------------------
(* Program constants (scaled) *)

\* size_t is an unsigned integer of this modulus (2^32 on the ESP32)
SIZE_MOD == 128
SIZE_MAX == SIZE_MOD - 1
\* #define ESP_HIMEM_BLKSZ (32 * 1024)
ESP_HIMEM_BLKSZ == 8
\* static constexpr size_t min_elements = 16
min_elements == 2

(* Bounds of the model *)

\* physical himem: number of blocks the hardware can hand out
HimemBlocks == 6
\* number of region handles the hardware can have live at once
MaxHandles == 3
\* number of mapping ranges the hardware can have reserved at once
MaxRanges == 3
\* largest byte value stored by a caller (0 is also what fresh memory may hold)
MaxByte == 2
\* operations per behaviour of the window-manager specification
MaxBlockOps == 3
\* operations per behaviour of the vector specification
MaxVecOps == 2
\* index of the last mapping call of a vector operation that may be denied alone
MaxVecFail == 2
\* operations per behaviour of the growth specification
MaxGrowOps == 5
\* operations per behaviour of the accessor specification
MaxAccessOps == 3
\* operations per behaviour of the registry specification
MaxRegistryOps == 4
\* index of the last hardware mapping call of an operation that may be denied
MaxFail == 4

Handles == 1..MaxHandles
Ranges == 1..MaxRanges
Byte == 0..MaxByte

Min(a, b) == IF a <= b THEN a ELSE b
Max(a, b) == IF a >= b THEN a ELSE b
Low(S) == CHOOSE x \in S : \A y \in S : x <= y

\* size_t arithmetic
Add(a, b) == (a + b) % SIZE_MOD
Sub(a, b) == (a - b + SIZE_MOD) % SIZE_MOD
Mul(a, b) == (a * b) % SIZE_MOD

-----------------------------------------------------------------------------
(* The hardware: regions (esp_himem_handle_t), mapping ranges              *)
(* (esp_himem_rangehandle_t) and the window a range is mapped to.          *)
(* A world w is the hardware state plus, for the running operation, the    *)
(* log of hardware calls, the count of mapping calls made, the set of      *)
(* mapping calls that will be denied, whether the region allocation is     *)
(* denied, and the byte uninitialised memory happens to hold.              *)

NoRegion == [live |-> FALSE, size |-> 0, data |-> <<>>]
NoRange == [live |-> FALSE, handle |-> 0, block |-> 0]

HwInit ==
  [mem |-> [h \in Handles |-> NoRegion],
   rng |-> [r \in Ranges |-> NoRange],
   bad |-> {}]

World(h, fail, deny, junk) ==
  [mem |-> h.mem, rng |-> h.rng, bad |-> h.bad,
   log |-> <<>>, calls |-> 0, fail |-> fail, deny |-> deny, junk |-> junk]

HwOf(w) == [mem |-> w.mem, rng |-> w.rng, bad |-> w.bad]

RECURSIVE SumSizes(_, _)
SumSizes(mem, S) ==
  IF S = {} THEN 0
  ELSE LET h == Low(S) IN mem[h].size + SumSizes(mem, S \ {h})

UsedBytes(w) == SumSizes(w.mem, {h \in Handles : w.mem[h].live})

\* esp_himem_alloc(size, &handle): a region of size bytes of fresh memory,
\* or failure (the handle is then left as it was)
esp_himem_alloc(w, bytes) ==
  LET free == {h \in Handles : ~w.mem[h].live}
      ok == /\ ~w.deny
            /\ bytes % ESP_HIMEM_BLKSZ = 0
            /\ UsedBytes(w) + bytes <= HimemBlocks * ESP_HIMEM_BLKSZ
            /\ free # {}
  IN IF ok
     THEN LET h == Low(free)
          IN [w |-> [w EXCEPT !.mem[h] = [live |-> TRUE, size |-> bytes,
                                          data |-> [i \in 1..bytes |-> w.junk]],
                              !.log = Append(@, <<"alloc", bytes, h>>)],
              handle |-> h]
     ELSE [w |-> [w EXCEPT !.log = Append(@, <<"alloc", bytes, 0>>)],
           handle |-> 0]

\* esp_himem_free(handle)
esp_himem_free(w, h) ==
  LET w1 == [w EXCEPT !.log = Append(@, <<"free", h, 0>>)]
  IN IF h \in Handles /\ w.mem[h].live
     THEN [w1 EXCEPT !.mem[h] = NoRegion,
                     !.bad = IF \E r \in Ranges : w.rng[r].live /\ w.rng[r].handle = h
                             THEN @ \cup {"free_while_mapped"} ELSE @]
     ELSE [w1 EXCEPT !.bad = @ \cup {"double_free"}]

\* esp_himem_alloc_map_range(size, &range): a mapping range, or failure
esp_himem_alloc_map_range(w) ==
  LET free == {r \in Ranges : ~w.rng[r].live}
      n == w.calls + 1
      ok == n \notin w.fail /\ free # {}
  IN IF ok
     THEN LET r == Low(free)
          IN [w |-> [w EXCEPT !.rng[r] = [live |-> TRUE, handle |-> 0, block |-> 0],
                              !.calls = n,
                              !.log = Append(@, <<"reserve", r, 0>>)],
              range |-> r]
     ELSE [w |-> [w EXCEPT !.calls = n, !.log = Append(@, <<"reserve", 0, 0>>)],
           range |-> 0]

\* esp_himem_map(handle, range, ram_offset, 0, len, flags, &ptr): the window
\* of the range shows the block at ram_offset; the pointer is the range's
\* address.  A request for a block outside the region, or with a bad handle or
\* range, is refused and noted as a misuse.
esp_himem_map(w, h, r, ram_offset) ==
  LET n == w.calls + 1
      valid == /\ h \in Handles /\ w.mem[h].live
               /\ ram_offset % ESP_HIMEM_BLKSZ = 0
               /\ ram_offset + ESP_HIMEM_BLKSZ <= w.mem[h].size
               /\ r \in Ranges /\ w.rng[r].live /\ w.rng[r].handle = 0
  IN IF ~valid
     THEN [w |-> [w EXCEPT !.calls = n, !.bad = @ \cup {"bad_map"},
                           !.log = Append(@, <<"map_invalid", h, ram_offset>>)],
           ptr |-> 0]
     ELSE IF n \notin w.fail
     THEN [w |-> [w EXCEPT !.rng[r].handle = h,
                           !.rng[r].block = ram_offset \div ESP_HIMEM_BLKSZ,
                           !.calls = n,
                           !.log = Append(@, <<"map", h, ram_offset \div ESP_HIMEM_BLKSZ>>)],
           ptr |-> r]
     ELSE [w |-> [w EXCEPT !.calls = n, !.log = Append(@, <<"map_denied", h, ram_offset>>)],
           ptr |-> 0]

\* esp_himem_unmap(range, ptr, len)
esp_himem_unmap(w, r, ptr) ==
  LET w1 == [w EXCEPT !.log = Append(@, <<"unmap", r, 0>>)]
  IN IF r \in Ranges /\ w.rng[r].live /\ w.rng[r].handle # 0 /\ ptr = r
     THEN [w1 EXCEPT !.rng[r].handle = 0, !.rng[r].block = 0]
     ELSE [w1 EXCEPT !.bad = @ \cup {"bad_unmap"}]

\* esp_himem_free_map_range(range)
esp_himem_free_map_range(w, r) ==
  LET w1 == [w EXCEPT !.log = Append(@, <<"release", r, 0>>)]
  IN IF r \in Ranges /\ w.rng[r].live
     THEN [w1 EXCEPT !.rng[r] = NoRange]
     ELSE [w1 EXCEPT !.bad = @ \cup {"double_release"}]

\* whether ptr is the address of a window that shows a block of a live region
WindowValid(w, ptr) ==
  /\ ptr \in Ranges
  /\ w.rng[ptr].live
  /\ w.rng[ptr].handle \in Handles
  /\ w.mem[w.rng[ptr].handle].live

\* the byte at ptr + off; outside a valid window the read is wild
WindowLoad(w, ptr, off) ==
  IF WindowValid(w, ptr) /\ off < ESP_HIMEM_BLKSZ
  THEN w.mem[w.rng[ptr].handle].data[w.rng[ptr].block * ESP_HIMEM_BLKSZ + off + 1]
  ELSE w.junk

\* memcpy(ptr + off, src + from, n): src is 1-indexed, from counts from 0
WindowStore(w, ptr, off, src, from, n) ==
  IF WindowValid(w, ptr) /\ off + n <= ESP_HIMEM_BLKSZ
  THEN LET h == w.rng[ptr].handle
           base == w.rng[ptr].block * ESP_HIMEM_BLKSZ + off
       IN [w EXCEPT !.mem[h].data =
             [i \in 1..Len(@) |->
                IF i > base /\ i <= base + n THEN src[from + i - base] ELSE @[i]]]
  ELSE [w EXCEPT !.bad = @ \cup {"wild_write"}]

-----------------------------------------------------------------------------
(* The operations below are written as the code runs them, one statement   *)
(* after the other: The({e : x \in {v}}) is e with x standing for the      *)
(* value of v, the result of the statement before.                         *)

The(S) == CHOOSE x \in S : TRUE

-----------------------------------------------------------------------------
(* class HimemBlock *)

\* HimemBlock(): the member initialisers
HimemBlock ==
  [handle |-> 0, range |-> 0, mapped_ptr |-> 0, size |-> 0,
   current_mapped_block |-> SIZE_MAX]

\* the rounding of allocate: up to a multiple of ESP_HIMEM_BLKSZ, in size_t
round_up(block_size) ==
  Mul(Add(block_size, ESP_HIMEM_BLKSZ - 1) \div ESP_HIMEM_BLKSZ, ESP_HIMEM_BLKSZ)

\* a variant of allocate that lacks the check for an existing handle
allocate_again(w, m, block_size) ==
  The({(IF a.handle = 0
        THEN [w |-> a.w, m |-> [m EXCEPT !.size = round_up(block_size)],
              ret |-> FALSE]
        ELSE [w |-> a.w,
              m |-> [m EXCEPT !.size = round_up(block_size), !.handle = a.handle],
              ret |-> TRUE])
       : a \in {esp_himem_alloc(w, round_up(block_size))}})

\* bool allocate(size_t block_size): size is set before the hardware is asked
allocate(w, m, block_size) ==
  IF m.handle # 0
  THEN [w |-> w, m |-> m, ret |-> FALSE]
  ELSE The({(IF a.handle = 0
             THEN [w |-> a.w, m |-> [m EXCEPT !.size = round_up(block_size)],
                   ret |-> FALSE]
             ELSE [w |-> a.w,
                   m |-> [m EXCEPT !.size = round_up(block_size),
                                   !.handle = a.handle],
                   ret |-> TRUE])
            : a \in {esp_himem_alloc(w, round_up(block_size))}})

\* a variant of unmap that does not release the mapping range
unmap_keep_range(w, m) ==
  IF m.mapped_ptr # 0 /\ m.range # 0
  THEN [w |-> esp_himem_unmap(w, m.range, m.mapped_ptr),
        m |-> [m EXCEPT !.mapped_ptr = 0, !.range = 0,
                        !.current_mapped_block = SIZE_MAX]]
  ELSE [w |-> w, m |-> m]

\* a variant of unmap that leaves current_mapped_block as it was
unmap_keep_block(w, m) ==
  IF m.mapped_ptr # 0 /\ m.range # 0
  THEN The({[w |-> esp_himem_free_map_range(u, m.range),
             m |-> [m EXCEPT !.mapped_ptr = 0, !.range = 0]]
            : u \in {esp_himem_unmap(w, m.range, m.mapped_ptr)}})
  ELSE [w |-> w, m |-> m]

\* void unmap()
unmap(w, m) ==
  IF m.mapped_ptr # 0 /\ m.range # 0
  THEN The({[w |-> esp_himem_free_map_range(u, m.range),
             m |-> [m EXCEPT !.mapped_ptr = 0, !.range = 0,
                             !.current_mapped_block = SIZE_MAX]]
            : u \in {esp_himem_unmap(w, m.range, m.mapped_ptr)}})
  ELSE [w |-> w, m |-> m]

\* a variant of free that frees the region before it unmaps
free_region_first(w, m) ==
  IF m.handle # 0
  THEN The({[w |-> u.w, m |-> [u.m EXCEPT !.handle = 0, !.size = 0]]
            : u \in {unmap(esp_himem_free(w, m.handle), m)}})
  ELSE [w |-> w, m |-> m]

\* a variant of free that lacks the check for a handle
free_unguarded(w, m) ==
  The({[w |-> esp_himem_free(u.w, u.m.handle),
        m |-> [u.m EXCEPT !.handle = 0, !.size = 0]]
       : u \in {unmap(w, m)}})

\* void free()
free(w, m) ==
  IF m.handle # 0
  THEN The({[w |-> esp_himem_free(u.w, u.m.handle),
             m |-> [u.m EXCEPT !.handle = 0, !.size = 0]]
            : u \in {unmap(w, m)}})
  ELSE [w |-> w, m |-> m]

\* a variant of map_block that keeps the reserved range when the map is denied
map_block_keep_range(w, m, block_index) ==
  The({(IF p.ptr = 0
        THEN [w |-> p.w, m |-> m, ret |-> FALSE]
        ELSE [w |-> p.w,
              m |-> [m EXCEPT !.mapped_ptr = p.ptr,
                              !.current_mapped_block = block_index],
              ret |-> TRUE])
       : p \in {esp_himem_map(w, m.handle, m.range,
                              Mul(block_index, ESP_HIMEM_BLKSZ))}})

\* ensure_block_mapped from esp_himem_map on: range is the reserved range
map_block(w, m, block_index) ==
  The({(IF p.ptr = 0
        THEN [w |-> esp_himem_free_map_range(p.w, m.range),
              m |-> [m EXCEPT !.range = 0], ret |-> FALSE]
        ELSE [w |-> p.w,
              m |-> [m EXCEPT !.mapped_ptr = p.ptr,
                              !.current_mapped_block = block_index],
              ret |-> TRUE])
       : p \in {esp_himem_map(w, m.handle, m.range,
                              Mul(block_index, ESP_HIMEM_BLKSZ))}})

\* ensure_block_mapped from esp_himem_alloc_map_range on
reserve_and_map(w, m, block_index) ==
  The({(IF a.range = 0
        THEN [w |-> a.w, m |-> m, ret |-> FALSE]
        ELSE map_block(a.w, [m EXCEPT !.range = a.range], block_index))
       : a \in {esp_himem_alloc_map_range(w)}})

\* a variant of remap_block that does not unmap the block that is mapped
remap_block_no_unmap(w, m, block_index) == reserve_and_map(w, m, block_index)

\* ensure_block_mapped when another block, or none, is mapped: unmap, get a
\* mapping range, map the block
remap_block(w, m, block_index) ==
  IF m.mapped_ptr # 0
  THEN The({reserve_and_map(u.w, u.m, block_index) : u \in {unmap(w, m)}})
  ELSE reserve_and_map(w, m, block_index)

\* a variant of ensure_block_mapped that tries a failed remap a second time
ensure_block_mapped_retry(w, m, block_index) ==
  IF block_index = m.current_mapped_block
  THEN [w |-> w, m |-> m, ret |-> TRUE]
  ELSE The({(IF r.ret THEN r ELSE remap_block(r.w, r.m, block_index))
            : r \in {remap_block(w, m, block_index)}})

\* bool ensure_block_mapped(size_t block_index)
ensure_block_mapped(w, m, block_index) ==
  IF block_index = m.current_mapped_block
  THEN [w |-> w, m |-> m, ret |-> TRUE]
  ELSE remap_block(w, m, block_index)

\* a variant of the clamp that lets the range run past the region end
clamp_length_none(m, offset, length) == length

\* length = std::min(length, size - offset)
clamp_length(m, offset, length) == Min(length, m.size - offset)

\* a variant of the chunk that measures every block from its start
block_chunk_whole(block_offset, length, done) ==
  Min(ESP_HIMEM_BLKSZ, length - done)

\* std::min(block_remain, length - done): the bytes to copy in this block
block_chunk(block_offset, length, done) ==
  Min(ESP_HIMEM_BLKSZ - block_offset, length - done)

\* the locals of read and write when the while loop is entered; buf is the
\* caller's buffer (1-indexed), done is bytes_read or bytes_written, ok is
\* whether no remap has failed
LoopLocals(w, m, buf, offset, length) ==
  [w |-> w, m |-> m, buf |-> buf, length |-> length,
   block_index |-> offset \div ESP_HIMEM_BLKSZ,
   block_offset |-> offset % ESP_HIMEM_BLKSZ, done |-> 0, ok |-> TRUE]

\* memcpy(dest_ptr + bytes_read, mapped_ptr + block_offset, to_read)
copy_out(w, ptr, dest, bytes_read, block_offset, to_read) ==
  [i \in 1..Len(dest) |->
     IF i > bytes_read /\ i <= bytes_read + to_read
     THEN WindowLoad(w, ptr, block_offset + i - bytes_read - 1)
     ELSE dest[i]]

\* a variant of the turn of read's loop whose memcpy goes from the caller's
\* buffer to the window
read_block_reversed(s) ==
  The({(IF ~e.ret
        THEN [s EXCEPT !.w = e.w, !.m = e.m, !.ok = FALSE]
        ELSE The({[s EXCEPT !.w = WindowStore(e.w, e.m.mapped_ptr, s.block_offset,
                                              s.buf, s.done, to_read),
                            !.m = e.m,
                            !.done = s.done + to_read,
                            !.block_index = Add(s.block_index, 1),
                            !.block_offset = 0]
                  : to_read \in {block_chunk(s.block_offset, s.length, s.done)}}))
       : e \in {ensure_block_mapped(s.w, s.m, s.block_index)}})

\* a variant of the turn of read's loop that keeps block_offset for the next block
read_block_keep_offset(s) ==
  The({(IF ~e.ret
        THEN [s EXCEPT !.w = e.w, !.m = e.m, !.ok = FALSE]
        ELSE The({[s EXCEPT !.w = e.w, !.m = e.m,
                            !.buf = copy_out(e.w, e.m.mapped_ptr, s.buf, s.done,
                                             s.block_offset, to_read),
                            !.done = s.done + to_read,
                            !.block_index = Add(s.block_index, 1)]
                  : to_read \in {block_chunk(s.block_offset, s.length, s.done)}}))
       : e \in {ensure_block_mapped(s.w, s.m, s.block_index)}})

\* one turn of the while loop of read
read_block(s) ==
  The({(IF ~e.ret
        THEN [s EXCEPT !.w = e.w, !.m = e.m, !.ok = FALSE]
        ELSE The({[s EXCEPT !.w = e.w, !.m = e.m,
                            !.buf = copy_out(e.w, e.m.mapped_ptr, s.buf, s.done,
                                             s.block_offset, to_read),
                            !.done = s.done + to_read,
                            !.block_index = Add(s.block_index, 1),
                            !.block_offset = 0]
                  : to_read \in {block_chunk(s.block_offset, s.length, s.done)}}))
       : e \in {ensure_block_mapped(s.w, s.m, s.block_index)}})

\* the while loop of read
RECURSIVE read_loop(_)
read_loop(s) ==
  IF s.done < s.length
  THEN The({(IF t.ok THEN read_loop(t) ELSE t) : t \in {read_block(s)}})
  ELSE s

\* size_t read(void* dest, size_t offset, size_t length)
read(w, m, dest, offset, length) ==
  IF m.handle = 0 \/ offset >= m.size
  THEN [w |-> w, m |-> m, ret |-> 0, dest |-> dest]
  ELSE IF clamp_length(m, offset, length) = 0
       THEN [w |-> w, m |-> m, ret |-> 0, dest |-> dest]
       ELSE The({[w |-> s.w, m |-> s.m, ret |-> s.done, dest |-> s.buf]
                 : s \in {read_loop(LoopLocals(w, m, dest, offset,
                                               clamp_length(m, offset, length)))}})

\* one turn of the while loop of write
write_block(s) ==
  The({(IF ~e.ret
        THEN [s EXCEPT !.w = e.w, !.m = e.m, !.ok = FALSE]
        ELSE The({[s EXCEPT !.w = WindowStore(e.w, e.m.mapped_ptr, s.block_offset,
                                              s.buf, s.done, to_write),
                            !.m = e.m,
                            !.done = s.done + to_write,
                            !.block_index = Add(s.block_index, 1),
                            !.block_offset = 0]
                  : to_write \in {block_chunk(s.block_offset, s.length, s.done)}}))
       : e \in {ensure_block_mapped(s.w, s.m, s.block_index)}})

\* the while loop of write
RECURSIVE write_loop(_)
write_loop(s) ==
  IF s.done < s.length
  THEN The({(IF t.ok THEN write_loop(t) ELSE t) : t \in {write_block(s)}})
  ELSE s

\* size_t write(const void* src, size_t offset, size_t length)
write(w, m, src, offset, length) ==
  IF m.handle = 0 \/ offset >= m.size
  THEN [w |-> w, m |-> m, ret |-> 0]
  ELSE IF clamp_length(m, offset, length) = 0
       THEN [w |-> w, m |-> m, ret |-> 0]
       ELSE The({[w |-> s.w, m |-> s.m, ret |-> s.done]
                 : s \in {write_loop(LoopLocals(w, m, src, offset,
                                                clamp_length(m, offset, length)))}})

\* size_t get_size() const
get_size(m) == m.size

\* a variant of the move constructor that leaves other as it was
move_construct_shared(other) ==
  [m |-> [handle |-> other.handle, range |-> other.range,
          mapped_ptr |-> other.mapped_ptr, size |-> other.size,
          current_mapped_block |-> other.current_mapped_block],
   other |-> other]

\* HimemBlock(HimemBlock&& other): the new object and what is left of other
move_construct(other) ==
  [m |-> [handle |-> other.handle, range |-> other.range,
          mapped_ptr |-> other.mapped_ptr, size |-> other.size,
          current_mapped_block |-> other.current_mapped_block],
   other |-> HimemBlock]

\* a variant of the move assignment that does not free what the object holds
move_assign_no_free(w, m, other) ==
  [w |-> w,
   m |-> [m EXCEPT !.handle = other.handle, !.range = other.range,
                   !.mapped_ptr = other.mapped_ptr, !.size = other.size,
                   !.current_mapped_block = other.current_mapped_block],
   other |-> [other EXCEPT !.handle = 0, !.range = 0, !.mapped_ptr = 0,
                           !.size = 0, !.current_mapped_block = SIZE_MAX]]

\* HimemBlock& operator=(HimemBlock&& other), this != &other
move_assign(w, m, other) ==
  The({[w |-> f.w,
        m |-> [f.m EXCEPT !.handle = other.handle, !.range = other.range,
                          !.mapped_ptr = other.mapped_ptr, !.size = other.size,
                          !.current_mapped_block = other.current_mapped_block],
        other |-> [other EXCEPT !.handle = 0, !.range = 0, !.mapped_ptr = 0,
                                !.size = 0, !.current_mapped_block = SIZE_MAX]]
       : f \in {free(w, m)}})

-----------------------------------------------------------------------------
(* template <typename T> class VectorHIMEM.  An element is sizeofT bytes;  *)
(* a T temp that is declared without an initialiser starts as junk.        *)

\* VectorHIMEM() = default: the member initialisers
VectorHIMEM == [memory |-> HimemBlock, element_count |-> 0, element_capacity |-> 0]

\* static size_t calculate_size_bytes(size_t count)
calculate_size_bytes(count) == Mul(count, sizeofT)

\* T temp; without an initialiser
JunkElem(w) == [k \in 1..sizeofT |-> w.junk]

\* src.read(&temp, i * sizeof(T), sizeof(T));
\* dst.write(&temp, i * sizeof(T), sizeof(T)); src and dst are two objects,
\* neither result is looked at
copy_element(w, src, dst, temp, i) ==
  The({The({[w |-> x.w, src |-> r.m, dst |-> x.m, temp |-> r.dest]
            : x \in {write(r.w, dst, r.dest, Mul(i, sizeofT), sizeofT)}})
       : r \in {read(w, src, temp, Mul(i, sizeofT), sizeofT)}})

\* for (size_t i = 0; i < count; ++i) { read from src; write to dst; }
RECURSIVE copy_elements(_, _, _)
copy_elements(s, i, count) ==
  IF i < count
  THEN The({copy_elements(t, i + 1, count)
            : t \in {copy_element(s.w, s.src, s.dst, s.temp, i)}})
  ELSE s

\* a variant of reallocate_into that leaves element_capacity as it was
reallocate_into_keep_capacity(w, v, new_memory) ==
  The({The({[w |-> free(mv.w, mv.other).w,
             v |-> [v EXCEPT !.memory = mv.m],
             ret |-> TRUE]
            : mv \in {move_assign(c.w, c.src, c.dst)}})
       : c \in {IF v.element_count > 0
                THEN copy_elements([w |-> w, src |-> v.memory, dst |-> new_memory,
                                    temp |-> JunkElem(w)], 0, v.element_count)
                ELSE [w |-> w, src |-> v.memory, dst |-> new_memory,
                      temp |-> JunkElem(w)]}})

\* reallocate once new_memory holds the new region: copy, move, destroy
reallocate_into(w, v, new_memory) ==
  The({The({[w |-> free(mv.w, mv.other).w,
             v |-> [v EXCEPT !.memory = mv.m,
                             !.element_capacity = get_size(mv.m) \div sizeofT],
             ret |-> TRUE]
            : mv \in {move_assign(c.w, c.src, c.dst)}})
       : c \in {IF v.element_count > 0
                THEN copy_elements([w |-> w, src |-> v.memory, dst |-> new_memory,
                                    temp |-> JunkElem(w)], 0, v.element_count)
                ELSE [w |-> w, src |-> v.memory, dst |-> new_memory,
                      temp |-> JunkElem(w)]}})

\* a variant of reallocate that gives the old region up before it has the new
\* one, and copies nothing
reallocate_release_first(w, v, new_capacity) ==
  IF new_capacity <= v.element_capacity
  THEN [w |-> w, v |-> v, ret |-> TRUE]
  ELSE The({The({(IF ~a.ret
                  THEN [w |-> a.w, v |-> [v EXCEPT !.memory = f.m], ret |-> FALSE]
                  ELSE [w |-> a.w,
                        v |-> [v EXCEPT !.memory = a.m,
                                        !.element_capacity = get_size(a.m) \div sizeofT],
                        ret |-> TRUE])
                 : a \in {allocate(f.w, HimemBlock,
                                   calculate_size_bytes(Max(new_capacity, min_elements)))}})
            : f \in {free(w, v.memory)}})

\* bool reallocate(size_t new_capacity)
reallocate(w, v, new_capacity) ==
  IF new_capacity <= v.element_capacity
  THEN [w |-> w, v |-> v, ret |-> TRUE]
  ELSE The({(IF ~a.ret
             THEN [w |-> free(a.w, a.m).w, v |-> v, ret |-> FALSE]
             ELSE reallocate_into(a.w, v, a.m))
            : a \in {allocate(w, HimemBlock,
                              calculate_size_bytes(Max(new_capacity, min_elements)))}})

\* void clear()
clear(v) == [v EXCEPT !.element_count = 0]

\* void reserve(size_type new_cap)
reserve(w, v, new_cap) ==
  IF new_cap > v.element_capacity
  THEN The({[w |-> r.w, v |-> r.v] : r \in {reallocate(w, v, new_cap)}})
  ELSE [w |-> w, v |-> v]

\* a variant of grow_capacity that asks for the capacity the vector has
grow_capacity_same(v) ==
  IF v.element_capacity = 0 THEN min_elements ELSE v.element_capacity

\* the capacity push_back and insert ask for when the vector is full
grow_capacity(v) ==
  IF v.element_capacity = 0 THEN min_elements ELSE Mul(v.element_capacity, 2)

\* if (element_count >= element_capacity) reallocate(new_capacity)
grow_if_full(w, v) ==
  IF v.element_count >= v.element_capacity
  THEN reallocate(w, v, grow_capacity(v))
  ELSE [w |-> w, v |-> v, ret |-> TRUE]

\* void push_back(const T& value): what write returns is not looked at
push_back(w, v, value) ==
  The({(IF ~r.ret
        THEN [w |-> r.w, v |-> r.v]
        ELSE The({[w |-> x.w,
                   v |-> [r.v EXCEPT !.memory = x.m, !.element_count = Add(@, 1)]]
                  : x \in {write(r.w, r.v.memory, value,
                                 Mul(r.v.element_count, sizeofT), sizeofT)}}))
       : r \in {grow_if_full(w, v)}})

\* void pop_back()
pop_back(v) ==
  IF v.element_count > 0 THEN [v EXCEPT !.element_count = @ - 1] ELSE v

\* if (count > element_capacity) reallocate(count)
grow_to(w, v, count) ==
  IF count > v.element_capacity
  THEN reallocate(w, v, count)
  ELSE [w |-> w, v |-> v, ret |-> TRUE]

\* void resize(size_type count)
resize(w, v, count) ==
  The({(IF ~r.ret
        THEN [w |-> r.w, v |-> r.v]
        ELSE [w |-> r.w, v |-> [r.v EXCEPT !.element_count = count]])
       : r \in {grow_to(w, v, count)}})

\* for (size_t i = old_size; i < count; ++i) memory.write(&value, i * sizeof(T), sizeof(T));
RECURSIVE fill_elements(_, _, _, _)
fill_elements(s, value, i, count) ==
  IF i < count
  THEN The({fill_elements([w |-> x.w, m |-> x.m], value, i + 1, count)
            : x \in {write(s.w, s.m, value, Mul(i, sizeofT), sizeofT)}})
  ELSE s

\* void resize(size_type count, const value_type& value)
resize_value(w, v, count, value) ==
  IF count > v.element_count
  THEN The({(IF ~r.ret
             THEN [w |-> r.w, v |-> r.v]
             ELSE The({[w |-> f.w,
                        v |-> [r.v EXCEPT !.memory = f.m, !.element_count = count]]
                       : f \in {fill_elements([w |-> r.w, m |-> r.v.memory], value,
                                              v.element_count, count)}}))
            : r \in {grow_to(w, v, count)}})
  ELSE [w |-> w, v |-> [v EXCEPT !.element_count = count]]

\* memory.read(&temp, from * sizeof(T), sizeof(T));
\* memory.write(&temp, to * sizeof(T), sizeof(T)); neither result is looked at
shift_element(w, m, temp, from, to) ==
  The({The({[w |-> x.w, m |-> x.m, temp |-> r.dest]
            : x \in {write(r.w, r.m, r.dest, Mul(to, sizeofT), sizeofT)}})
       : r \in {read(w, m, temp, Mul(from, sizeofT), sizeofT)}})

\* for (size_t i = pos + 1; i < element_count; ++i) { read i; write i - 1; }
RECURSIVE erase_loop(_, _, _)
erase_loop(s, i, count) ==
  IF i < count
  THEN The({erase_loop(t, i + 1, count)
            : t \in {shift_element(s.w, s.m, s.temp, i, i - 1)}})
  ELSE s

\* void erase(size_type pos)
erase(w, v, pos) ==
  IF pos >= v.element_count
  THEN [w |-> w, v |-> v]
  ELSE The({[w |-> e.w,
             v |-> [v EXCEPT !.memory = e.m, !.element_count = @ - 1]]
            : e \in {erase_loop([w |-> w, m |-> v.memory, temp |-> JunkElem(w)],
                                pos + 1, v.element_count)}})

\* for (size_t i = element_count; i > pos; --i) { read i - 1; write i; }
RECURSIVE insert_loop(_, _, _)
insert_loop(s, i, pos) ==
  IF i > pos
  THEN The({insert_loop(t, i - 1, pos)
            : t \in {shift_element(s.w, s.m, s.temp, i - 1, i)}})
  ELSE s

\* void insert(size_type pos, const T& value)
insert(w, v, pos, value) ==
  IF pos > v.element_count
  THEN [w |-> w, v |-> v]
  ELSE The({(IF ~r.ret
             THEN [w |-> r.w, v |-> r.v]
             ELSE The({The({[w |-> x.w,
                             v |-> [r.v EXCEPT !.memory = x.m,
                                               !.element_count = Add(@, 1)]]
                            : x \in {write(s.w, s.m, value, Mul(pos, sizeofT),
                                           sizeofT)}})
                       : s \in {insert_loop([w |-> r.w, m |-> r.v.memory,
                                             temp |-> JunkElem(r.w)],
                                            r.v.element_count, pos)}}))
            : r \in {grow_if_full(w, v)}})

\* reference operator[](size_type pos): temp is the static T the element is
\* read into; the result is what temp holds afterwards
index_read(w, v, temp, pos) ==
  read(w, v.memory, temp, Mul(pos, sizeofT), sizeofT)

\* reference at(size_type pos): temp is the static T of at; std::out_of_range
\* is thrown before anything is read
at(w, v, temp, pos) ==
  IF pos >= v.element_count
  THEN [w |-> w, m |-> v.memory, ret |-> 0, dest |-> temp, thrown |-> TRUE]
  ELSE The({[w |-> r.w, m |-> r.m, ret |-> r.ret, dest |-> r.dest,
             thrown |-> FALSE]
            : r \in {read(w, v.memory, temp, Mul(pos, sizeofT), sizeofT)}})

\* reference front(): temp is the static T of front
front(w, v, temp) == read(w, v.memory, temp, 0, sizeofT)

\* reference back(): temp is the static T of back
back(w, v, temp) ==
  read(w, v.memory, temp, Mul(Sub(v.element_count, 1), sizeofT), sizeofT)

\* one turn of the loop of operator==: lhs_val = lhs[i]; rhs_val = rhs[i];
\* both go through the static T result of the const operator[], and same says
\* that lhs and rhs are one object
equals_turn(s, i) ==
  The({The({[s EXCEPT !.w = r.w,
                      !.lhs = IF s.same THEN r.m ELSE l.m,
                      !.rhs = r.m,
                      !.result = r.dest,
                      !.equal = (l.dest = r.dest)]
            : r \in {read(l.w, IF s.same THEN l.m ELSE s.rhs, l.dest,
                          Mul(i, sizeofT), sizeofT)}})
       : l \in {read(s.w, s.lhs, s.result, Mul(i, sizeofT), sizeofT)}})

\* for (size_t i = 0; i < lhs.size(); ++i) { ...; if (!(lhs_val == rhs_val)) return false; }
RECURSIVE equals_loop(_, _, _)
equals_loop(s, i, n) ==
  IF i < n
  THEN The({(IF t.equal THEN equals_loop(t, i + 1, n) ELSE t)
            : t \in {equals_turn(s, i)}})
  ELSE s

\* bool operator==(const VectorHIMEM<T>& lhs, const VectorHIMEM<T>& rhs)
operator_equals(w, lhs, rhs, result, same) ==
  IF lhs.element_count # rhs.element_count
  THEN [w |-> w, lhs |-> lhs.memory, rhs |-> rhs.memory, result |-> result,
        same |-> same, equal |-> FALSE]
  ELSE equals_loop([w |-> w, lhs |-> lhs.memory, rhs |-> rhs.memory,
                    result |-> result, same |-> same, equal |-> TRUE],
                   0, lhs.element_count)

\* the copy of copy construction and copy assignment once reallocate is done:
\* r is what reallocate returned
copy_from(r, other) ==
  IF r.ret
  THEN The({[w |-> c.w,
             v |-> [r.v EXCEPT !.memory = c.dst,
                               !.element_count = other.element_count],
             other |-> [other EXCEPT !.memory = c.src]]
            : c \in {copy_elements([w |-> r.w, src |-> other.memory,
                                    dst |-> r.v.memory, temp |-> JunkElem(r.w)],
                                   0, other.element_count)}})
  ELSE [w |-> r.w, v |-> r.v, other |-> other]

\* VectorHIMEM(const VectorHIMEM& other)
vector_copy_construct(w, other) ==
  IF other.element_count > 0
  THEN The({copy_from(r, other)
            : r \in {reallocate(w, VectorHIMEM, other.element_count)}})
  ELSE [w |-> w, v |-> VectorHIMEM, other |-> other]

\* a variant of the copy assignment that does not clear the vector first
vector_copy_assign_no_clear(w, v, other) ==
  IF other.element_count > 0
  THEN The({copy_from(r, other)
            : r \in {reallocate(w, v, other.element_count)}})
  ELSE [w |-> w, v |-> v, other |-> other]

\* VectorHIMEM& operator=(const VectorHIMEM& other), this != &other
vector_copy_assign(w, v, other) ==
  IF other.element_count > 0
  THEN The({copy_from(r, other)
            : r \in {reallocate(w, clear(v), other.element_count)}})
  ELSE [w |-> w, v |-> clear(v), other |-> other]

\* VectorHIMEM(VectorHIMEM&& other)
vector_move_construct(other) ==
  [v |-> [memory |-> move_construct(other.memory).m,
          element_count |-> other.element_count,
          element_capacity |-> other.element_capacity],
   other |-> [memory |-> move_construct(other.memory).other,
              element_count |-> 0, element_capacity |-> 0]]

\* VectorHIMEM& operator=(VectorHIMEM&& other), this != &other
vector_move_assign(w, v, other) ==
  The({[w |-> mv.w,
        v |-> [memory |-> mv.m, element_count |-> other.element_count,
               element_capacity |-> other.element_capacity],
        other |-> [memory |-> mv.other, element_count |-> 0,
                   element_capacity |-> 0]]
       : mv \in {move_assign(w, clear(v).memory, other.memory)}})

\* std::swap(a, b) of two HimemBlock objects: a move construction of a
\* temporary, two move assignments and the temporary's destruction
swap_memory(w, a, b) ==
  The({The({[w |-> free(a2.w, a2.other).w, a |-> a1.m, b |-> a2.m]
            : a2 \in {move_assign(a1.w, a1.other, move_construct(a).m)}})
       : a1 \in {move_assign(w, move_construct(a).other, b)}})

\* a variant of swap that leaves each vector its element_capacity
swap_keep_capacity(w, v, other) ==
  The({[w |-> m.w,
        v |-> [memory |-> m.a, element_count |-> other.element_count,
               element_capacity |-> v.element_capacity],
        other |-> [memory |-> m.b, element_count |-> v.element_count,
                   element_capacity |-> other.element_capacity]]
       : m \in {swap_memory(w, v.memory, other.memory)}})

\* void swap(VectorHIMEM& other), this != &other
swap(w, v, other) ==
  The({[w |-> m.w,
        v |-> [memory |-> m.a, element_count |-> other.element_count,
               element_capacity |-> other.element_capacity],
        other |-> [memory |-> m.b, element_count |-> v.element_count,
                   element_capacity |-> v.element_capacity]]
       : m \in {swap_memory(w, v.memory, other.memory)}})

\* ~VectorHIMEM(): clear(), then the member memory is destroyed
vector_destroy(w, v) ==
  The({[w |-> f.w, v |-> [clear(v) EXCEPT !.memory = f.m]]
       : f \in {free(w, clear(v).memory)}})

\* for (const auto& item : init) { memory.write(&item, i * sizeof(T), sizeof(T)); ++i; }
RECURSIVE write_items(_, _, _)
write_items(s, items, i) ==
  IF i < Len(items)
  THEN The({write_items([w |-> x.w, m |-> x.m], items, i + 1)
            : x \in {write(s.w, s.m, items[i + 1], Mul(i, sizeofT), sizeofT)}})
  ELSE s

\* VectorHIMEM(std::initializer_list<T> init)
vector_from_list(w, init) ==
  IF Len(init) > 0
  THEN The({(IF r.ret
             THEN The({[w |-> x.w,
                        v |-> [r.v EXCEPT !.memory = x.m,
                                          !.element_count = Len(init)]]
                       : x \in {write_items([w |-> r.w, m |-> r.v.memory], init, 0)}})
             ELSE [w |-> r.w, v |-> r.v])
            : r \in {reallocate(w, VectorHIMEM, Len(init))}})
  ELSE [w |-> w, v |-> VectorHIMEM]

-----------------------------------------------------------------------------
(* Inputs *)

\* which hardware mapping calls of an operation are denied: none, the k-th,
\* or every one
CallCap == 4 * SIZE_MOD
FailOnce == {{}} \cup {{k} : k \in 1..MaxFail}
FailAll == 1..CallCap

\* what uninitialised memory may hold: a byte no caller stores, or one it does
JunkBytes == {0, MaxByte}

\* what the hardware does during one vector operation: it grants everything,
\* or denies the region allocation, or denies some mapping calls
Envs ==
  {[fail |-> {}, deny |-> FALSE, junk |-> b] : b \in JunkBytes}
  \cup {[fail |-> {}, deny |-> TRUE, junk |-> 0]}
  \cup {[fail |-> f, deny |-> FALSE, junk |-> 0] :
          f \in {{k} : k \in 1..MaxVecFail} \cup {FailAll}}
EnvWorld(e) == World(hw, e.fail, e.deny, e.junk)
Granted == [fail |-> {}, deny |-> FALSE, junk |-> 0]

\* a caller's source buffer: SIZE_MAX bytes, none of them 0, in runs of three
\* equal bytes so that no two blocks of the buffer look alike
BufLen == SIZE_MAX
SrcBuf(p) == [k \in 1..BufLen |-> (((k \div 3) + p) % MaxByte) + 1]
Patterns == 0..(MaxByte - 1)

\* a caller's destination buffer before a read: a byte no region holds
Blank == MaxByte + 1
DestBuf == [k \in 1..BufLen |-> Blank]

AllocRequests ==
  {0, 1, ESP_HIMEM_BLKSZ + 1, 2 * ESP_HIMEM_BLKSZ + 1,
   SIZE_MOD - ESP_HIMEM_BLKSZ, SIZE_MAX}
Offsets == {0, ESP_HIMEM_BLKSZ - 1, 2 * ESP_HIMEM_BLKSZ, 3 * ESP_HIMEM_BLKSZ}
Lengths == {0, 2, 2 * ESP_HIMEM_BLKSZ + 1, SIZE_MAX}

\* the first n bytes of a buffer
Prefix(buf, n) == [k \in 1..n |-> buf[k]]

\* whether the log of an operation holds a denied hardware call
MapDenied(log) ==
  \E k \in 1..Len(log) :
    log[k][1] = "map_denied" \/ (log[k][1] = "reserve" /\ log[k][2] = 0)
AllocDenied(log) ==
  \E k \in 1..Len(log) : log[k][1] = "alloc" /\ log[k][3] = 0
HwCalls(log, name) == Cardinality({k \in 1..Len(log) : log[k][1] = name})

\* the call just made: its name, the objects, its arguments (offset is also
\* the position or count of a vector call, src its value), its results (ret2
\* is what the write of a write-then-read returned), the hardware calls it
\* made, and the hardware and the objects before it
NoCall ==
  [op |-> "init", i |-> 0, j |-> 0, offset |-> 0, length |-> 0, ret |-> 0,
   ret2 |-> 0, src |-> <<>>, dest |-> <<>>, log |-> <<>>, pre |-> <<>>]

Bool(b) == IF b THEN 1 ELSE 0

-----------------------------------------------------------------------------
(* The window manager on its own: two HimemBlock objects and the calls a   *)
(* caller can make on them.  Manager 1 is the one allocate, read and write *)
(* are called on; manager 2 is the other party of a move.                  *)

Mgrs == 1..2
DataMgrs == {1}

BCall(op, i, j, offset, length, ret, src, dest, log) ==
  [op |-> op, i |-> i, j |-> j, offset |-> offset, length |-> length,
   ret |-> ret, ret2 |-> 0, src |-> src, dest |-> dest, log |-> log,
   pre |-> [hw |-> hw, mgr |-> mgr]]

BlockInit ==
  /\ hw = HwInit
  /\ mgr = [i \in Mgrs |-> [alive |-> TRUE, b |-> HimemBlock]]
  /\ vec = <<>>
  /\ ghost = <<>>
  /\ last = NoCall
  /\ steps = 0
  /\ sizeofT = 1
  /\ temps = <<>>
  /\ initialized = FALSE
  /\ fileData = <<>>

BlockStep ==
  /\ steps < MaxBlockOps
  /\ steps' = steps + 1
  /\ UNCHANGED <<vec, ghost, sizeofT, temps, initialized, fileData>>

BAllocate(i, req, deny, junk) ==
  /\ BlockStep
  /\ mgr[i].alive
  /\ \E r \in {allocate(World(hw, {}, deny, junk), mgr[i].b, req)} :
        /\ hw' = HwOf(r.w)
        /\ mgr' = [mgr EXCEPT ![i].b = r.m]
        /\ last' = BCall("allocate", i, 0, 0, req, Bool(r.ret), <<>>, <<>>, r.w.log)

BWrite(i, offset, length, p, fail) ==
  /\ BlockStep
  /\ mgr[i].alive
  /\ \E r \in {write(World(hw, fail, FALSE, 0), mgr[i].b, SrcBuf(p), offset, length)} :
        /\ hw' = HwOf(r.w)
        /\ mgr' = [mgr EXCEPT ![i].b = r.m]
        /\ last' = BCall("write", i, 0, offset, length, r.ret, SrcBuf(p), <<>>, r.w.log)

BRead(i, offset, length, fail) ==
  /\ BlockStep
  /\ mgr[i].alive
  /\ \E r \in {read(World(hw, fail, FALSE, 0), mgr[i].b, DestBuf, offset, length)} :
        /\ hw' = HwOf(r.w)
        /\ mgr' = [mgr EXCEPT ![i].b = r.m]
        /\ last' = BCall("read", i, 0, offset, length, r.ret, <<>>, r.dest, r.w.log)

\* a caller writes a range and reads the same range back
BWriteRead(i, offset, length, p) ==
  /\ BlockStep
  /\ mgr[i].alive
  /\ \E x \in {write(World(hw, {}, FALSE, 0), mgr[i].b, SrcBuf(p), offset, length)} :
     \E r \in {read(x.w, x.m, DestBuf, offset, length)} :
        /\ hw' = HwOf(r.w)
        /\ mgr' = [mgr EXCEPT ![i].b = r.m]
        /\ last' = [BCall("write_read", i, 0, offset, length, r.ret, SrcBuf(p),
                          r.dest, r.w.log) EXCEPT !.ret2 = x.ret]

BUnmap(i) ==
  /\ BlockStep
  /\ mgr[i].alive
  /\ \E r \in {unmap(World(hw, {}, FALSE, 0), mgr[i].b)} :
        /\ hw' = HwOf(r.w)
        /\ mgr' = [mgr EXCEPT ![i].b = r.m]
        /\ last' = BCall("unmap", i, 0, 0, 0, 0, <<>>, <<>>, r.w.log)

BFree(i) ==
  /\ BlockStep
  /\ mgr[i].alive
  /\ \E r \in {free(World(hw, {}, FALSE, 0), mgr[i].b)} :
        /\ hw' = HwOf(r.w)
        /\ mgr' = [mgr EXCEPT ![i].b = r.m]
        /\ last' = BCall("free", i, 0, 0, 0, 0, <<>>, <<>>, r.w.log)

\* ~HimemBlock()
BDestroy(i) ==
  /\ BlockStep
  /\ mgr[i].alive
  /\ \E r \in {free(World(hw, {}, FALSE, 0), mgr[i].b)} :
        /\ hw' = HwOf(r.w)
        /\ mgr' = [mgr EXCEPT ![i] = [alive |-> FALSE, b |-> r.m]]
        /\ last' = BCall("destroy", i, 0, 0, 0, 0, <<>>, <<>>, r.w.log)

\* HimemBlock x;
BConstruct(i) ==
  /\ BlockStep
  /\ ~mgr[i].alive
  /\ hw' = hw
  /\ mgr' = [mgr EXCEPT ![i] = [alive |-> TRUE, b |-> HimemBlock]]
  /\ last' = BCall("construct", i, 0, 0, 0, 0, <<>>, <<>>, <<>>)

\* HimemBlock x(std::move(y));
BMoveConstruct(i, j) ==
  /\ BlockStep
  /\ ~mgr[i].alive /\ mgr[j].alive
  /\ \E r \in {move_construct(mgr[j].b)} :
        /\ hw' = hw
        /\ mgr' = [mgr EXCEPT ![i] = [alive |-> TRUE, b |-> r.m], ![j].b = r.other]
        /\ last' = BCall("move_construct", i, j, 0, 0, 0, <<>>, <<>>, <<>>)

\* x = std::move(y);
BMoveAssign(i, j) ==
  /\ BlockStep
  /\ mgr[i].alive /\ mgr[j].alive
  /\ IF i = j
     THEN /\ UNCHANGED <<hw, mgr>>
          /\ last' = BCall("move_assign", i, j, 0, 0, 0, <<>>, <<>>, <<>>)
     ELSE \E r \in {move_assign(World(hw, {}, FALSE, 0), mgr[i].b, mgr[j].b)} :
             /\ hw' = HwOf(r.w)
             /\ mgr' = [mgr EXCEPT ![i].b = r.m, ![j].b = r.other]
             /\ last' = BCall("move_assign", i, j, 0, 0, 0, <<>>, <<>>, r.w.log)

BlockNext ==
  \/ \E i \in DataMgrs, req \in AllocRequests, deny \in BOOLEAN, junk \in JunkBytes :
       BAllocate(i, req, deny, junk)
  \/ \E i \in DataMgrs, offset \in Offsets, length \in Lengths, p \in Patterns,
        fail \in FailOnce : BWrite(i, offset, length, p, fail)
  \/ \E i \in DataMgrs, offset \in Offsets, length \in Lengths, fail \in FailOnce :
       BRead(i, offset, length, fail)
  \/ \E i \in DataMgrs, offset \in Offsets, length \in Lengths, p \in Patterns :
       BWriteRead(i, offset, length, p)
  \/ \E i \in Mgrs : BUnmap(i)
  \/ \E i \in Mgrs : BFree(i)
  \/ \E i \in Mgrs : BDestroy(i)
  \/ \E i \in Mgrs : BConstruct(i)
  \/ \E i, j \in Mgrs : BMoveConstruct(i, j)
  \/ \E i, j \in Mgrs : BMoveAssign(i, j)

SpecBlock == BlockInit /\ [][BlockNext]_vars

-----------------------------------------------------------------------------
(* The vector: two VectorHIMEM<T> objects and the calls a caller can make  *)
(* on them.  Vector 1 is the one the element operations are called on;     *)
(* vector 2 is the other party of copy, move and swap.  ghost[i].seq is    *)
(* the ordinary sequence obtained by applying the same calls, kept while   *)
(* ghost[i].tracked: the object was built from                             *)
(* a list and only push_back, pop_back, insert, erase, resize(n, value),   *)
(* reserve and clear were called on it, with no hardware call denied.      *)

Vecs == 1..2
ElemVecs == {1}

\* element values a caller stores: every byte the same, none 0
Val(b) == [k \in 1..sizeofT |-> b]
Values == {Val(b) : b \in 1..MaxByte}

\* the smallest element count whose size in bytes wraps in size_t
OverflowCount == SIZE_MOD \div sizeofT + 1
Counts == {1, min_elements + 1, 2 * min_elements + 1, OverflowCount}
Positions == {0, 1, min_elements + 1}

\* the lists the two vectors are constructed from
InitLists ==
  [Vecs -> {<<>>, <<Val(1), Val(MaxByte)>>, <<Val(1), Val(MaxByte), Val(1)>>}]

SeqInsert(s, pos, x) == SubSeq(s, 1, pos) \o <<x>> \o SubSeq(s, pos + 1, Len(s))
SeqErase(s, pos) == SubSeq(s, 1, pos) \o SubSeq(s, pos + 2, Len(s))
SeqResize(s, n, x) ==
  IF n <= Len(s) THEN SubSeq(s, 1, n) ELSE s \o [k \in 1..(n - Len(s)) |-> x]

Untracked == [tracked |-> FALSE, seq |-> <<>>]

\* the ghost of vector i after a call that leaves the ordinary sequence s
Track(i, log, s) ==
  [ghost EXCEPT ![i] = IF ghost[i].tracked /\ ~MapDenied(log) /\ ~AllocDenied(log)
                       THEN [tracked |-> TRUE, seq |-> s]
                       ELSE Untracked]

VCall(op, i, j, arg, value, log) ==
  [op |-> op, i |-> i, j |-> j, offset |-> arg, length |-> 0, ret |-> 0,
   ret2 |-> 0, src |-> value, dest |-> <<>>, log |-> log,
   pre |-> [hw |-> hw, vec |-> vec]]

\* VectorHIMEM<T> a{...}, b{...}; on hardware that grants every request, T
\* being a type of three bytes, so that elements lie across block boundaries
Init ==
  /\ sizeofT = 3
  /\ temps = <<>>
  /\ initialized = FALSE
  /\ fileData = <<>>
  /\ \E lists \in InitLists, junk \in JunkBytes :
    \E a \in {vector_from_list(World(HwInit, {}, FALSE, junk), lists[1])} :
    \E b \in {vector_from_list(World(HwOf(a.w), {}, FALSE, junk), lists[2])} :
       /\ hw = HwOf(b.w)
       /\ mgr = <<>>
       /\ vec = [i \in Vecs |-> [alive |-> TRUE, v |-> IF i = 1 THEN a.v ELSE b.v]]
       /\ ghost = [i \in Vecs |-> [tracked |-> TRUE, seq |-> lists[i]]]
       /\ last = NoCall
       /\ steps = 0

VecStep ==
  /\ steps < MaxVecOps
  /\ steps' = steps + 1
  /\ UNCHANGED <<mgr, sizeofT, temps, initialized, fileData>>

PushBack(i, value, e) ==
  /\ VecStep
  /\ vec[i].alive
  /\ \E r \in {push_back(EnvWorld(e), vec[i].v, value)} :
        /\ hw' = HwOf(r.w)
        /\ vec' = [vec EXCEPT ![i].v = r.v]
        /\ ghost' = Track(i, r.w.log, Append(ghost[i].seq, value))
        /\ last' = VCall("push_back", i, 0, 0, value, r.w.log)

PopBack(i) ==
  /\ VecStep
  /\ vec[i].alive
  /\ hw' = hw
  /\ vec' = [vec EXCEPT ![i].v = pop_back(@)]
  /\ ghost' = Track(i, <<>>, IF ghost[i].seq = <<>> THEN <<>>
                             ELSE SubSeq(ghost[i].seq, 1, Len(ghost[i].seq) - 1))
  /\ last' = VCall("pop_back", i, 0, 0, <<>>, <<>>)

Insert(i, pos, value, e) ==
  /\ VecStep
  /\ vec[i].alive
  /\ \E r \in {insert(EnvWorld(e), vec[i].v, pos, value)} :
        /\ hw' = HwOf(r.w)
        /\ vec' = [vec EXCEPT ![i].v = r.v]
        /\ ghost' = Track(i, r.w.log, IF pos > Len(ghost[i].seq) THEN ghost[i].seq
                                      ELSE SeqInsert(ghost[i].seq, pos, value))
        /\ last' = VCall("insert", i, 0, pos, value, r.w.log)

Erase(i, pos, e) ==
  /\ VecStep
  /\ vec[i].alive
  /\ ~e.deny
  /\ \E r \in {erase(EnvWorld(e), vec[i].v, pos)} :
        /\ hw' = HwOf(r.w)
        /\ vec' = [vec EXCEPT ![i].v = r.v]
        /\ ghost' = Track(i, r.w.log, IF pos >= Len(ghost[i].seq) THEN ghost[i].seq
                                      ELSE SeqErase(ghost[i].seq, pos))
        /\ last' = VCall("erase", i, 0, pos, <<>>, r.w.log)

Resize(i, count, e) ==
  /\ VecStep
  /\ vec[i].alive
  /\ \E r \in {resize(EnvWorld(e), vec[i].v, count)} :
        /\ hw' = HwOf(r.w)
        /\ vec' = [vec EXCEPT ![i].v = r.v]
        /\ ghost' = [ghost EXCEPT ![i] = Untracked]
        /\ last' = VCall("resize", i, 0, count, <<>>, r.w.log)

ResizeValue(i, count, value, e) ==
  /\ VecStep
  /\ vec[i].alive
  /\ \E r \in {resize_value(EnvWorld(e), vec[i].v, count, value)} :
        /\ hw' = HwOf(r.w)
        /\ vec' = [vec EXCEPT ![i].v = r.v]
        /\ ghost' = Track(i, r.w.log, SeqResize(ghost[i].seq, count, value))
        /\ last' = VCall("resize_value", i, 0, count, value, r.w.log)

Reserve(i, count, e) ==
  /\ VecStep
  /\ vec[i].alive
  /\ \E r \in {reserve(EnvWorld(e), vec[i].v, count)} :
        /\ hw' = HwOf(r.w)
        /\ vec' = [vec EXCEPT ![i].v = r.v]
        /\ ghost' = Track(i, r.w.log, ghost[i].seq)
        /\ last' = VCall("reserve", i, 0, count, <<>>, r.w.log)

Clear(i) ==
  /\ VecStep
  /\ vec[i].alive
  /\ hw' = hw
  /\ vec' = [vec EXCEPT ![i].v = clear(@)]
  /\ ghost' = Track(i, <<>>, <<>>)
  /\ last' = VCall("clear", i, 0, 0, <<>>, <<>>)

\* a.swap(b); a.swap(a) moves memory out, assigns it to itself and moves it back
Swap(i, j) ==
  /\ VecStep
  /\ vec[i].alive /\ vec[j].alive
  /\ IF i = j
     THEN /\ UNCHANGED <<hw, vec>>
          /\ ghost' = [ghost EXCEPT ![i] = Untracked]
          /\ last' = VCall("swap", i, j, 0, <<>>, <<>>)
     ELSE \E r \in {swap(World(hw, {}, FALSE, 0), vec[i].v, vec[j].v)} :
             /\ hw' = HwOf(r.w)
             /\ vec' = [vec EXCEPT ![i].v = r.v, ![j].v = r.other]
             /\ ghost' = [ghost EXCEPT ![i] = Untracked, ![j] = Untracked]
             /\ last' = VCall("swap", i, j, 0, <<>>, r.w.log)

\* VectorHIMEM a(b);
CopyConstruct(i, j, e) ==
  /\ VecStep
  /\ ~vec[i].alive /\ vec[j].alive
  /\ \E r \in {vector_copy_construct(EnvWorld(e), vec[j].v)} :
        /\ hw' = HwOf(r.w)
        /\ vec' = [vec EXCEPT ![i] = [alive |-> TRUE, v |-> r.v], ![j].v = r.other]
        /\ ghost' = [ghost EXCEPT ![i] = Untracked]
        /\ last' = VCall("copy_construct", i, j, 0, <<>>, r.w.log)

\* a = b;
CopyAssign(i, j, e) ==
  /\ VecStep
  /\ vec[i].alive /\ vec[j].alive
  /\ IF i = j
     THEN /\ UNCHANGED <<hw, vec>>
          /\ ghost' = [ghost EXCEPT ![i] = Untracked]
          /\ last' = VCall("copy_assign", i, j, 0, <<>>, <<>>)
     ELSE \E r \in {vector_copy_assign(EnvWorld(e), vec[i].v, vec[j].v)} :
             /\ hw' = HwOf(r.w)
             /\ vec' = [vec EXCEPT ![i].v = r.v, ![j].v = r.other]
             /\ ghost' = [ghost EXCEPT ![i] = Untracked]
             /\ last' = VCall("copy_assign", i, j, 0, <<>>, r.w.log)

\* VectorHIMEM a(std::move(b));
MoveConstruct(i, j) ==
  /\ VecStep
  /\ ~vec[i].alive /\ vec[j].alive
  /\ \E r \in {vector_move_construct(vec[j].v)} :
        /\ hw' = hw
        /\ vec' = [vec EXCEPT ![i] = [alive |-> TRUE, v |-> r.v], ![j].v = r.other]
        /\ ghost' = [ghost EXCEPT ![i] = Untracked, ![j] = Untracked]
        /\ last' = VCall("move_construct", i, j, 0, <<>>, <<>>)

\* a = std::move(b);
MoveAssign(i, j) ==
  /\ VecStep
  /\ vec[i].alive /\ vec[j].alive
  /\ IF i = j
     THEN /\ UNCHANGED <<hw, vec>>
          /\ ghost' = [ghost EXCEPT ![i] = Untracked]
          /\ last' = VCall("move_assign", i, j, 0, <<>>, <<>>)
     ELSE \E r \in {vector_move_assign(World(hw, {}, FALSE, 0), vec[i].v, vec[j].v)} :
             /\ hw' = HwOf(r.w)
             /\ vec' = [vec EXCEPT ![i].v = r.v, ![j].v = r.other]
             /\ ghost' = [ghost EXCEPT ![i] = Untracked, ![j] = Untracked]
             /\ last' = VCall("move_assign", i, j, 0, <<>>, r.w.log)

\* VectorHIMEM a;
Construct(i) ==
  /\ VecStep
  /\ ~vec[i].alive
  /\ hw' = hw
  /\ vec' = [vec EXCEPT ![i] = [alive |-> TRUE, v |-> VectorHIMEM]]
  /\ ghost' = [ghost EXCEPT ![i] = [tracked |-> TRUE, seq |-> <<>>]]
  /\ last' = VCall("construct", i, 0, 0, <<>>, <<>>)

\* the object's lifetime ends
Destroy(i) ==
  /\ VecStep
  /\ vec[i].alive
  /\ \E r \in {vector_destroy(World(hw, {}, FALSE, 0), vec[i].v)} :
        /\ hw' = HwOf(r.w)
        /\ vec' = [vec EXCEPT ![i] = [alive |-> FALSE, v |-> r.v]]
        /\ ghost' = [ghost EXCEPT ![i] = Untracked]
        /\ last' = VCall("destroy", i, 0, 0, <<>>, r.w.log)

Next ==
  \/ \E i \in ElemVecs, value \in Values, e \in Envs : PushBack(i, value, e)
  \/ \E i \in ElemVecs : PopBack(i)
  \/ \E i \in ElemVecs, pos \in Positions, value \in Values, e \in Envs :
       Insert(i, pos, value, e)
  \/ \E i \in ElemVecs, pos \in Positions, e \in Envs : Erase(i, pos, e)
  \/ \E i \in ElemVecs, count \in Counts, e \in Envs : Resize(i, count, e)
  \/ \E i \in ElemVecs, count \in Counts, value \in Values, e \in Envs :
       ResizeValue(i, count, value, e)
  \/ \E i \in ElemVecs, count \in Counts, e \in Envs : Reserve(i, count, e)
  \/ \E i \in ElemVecs : Clear(i)
  \/ \E i, j \in Vecs : Swap(i, j)
  \/ \E i, j \in Vecs, e \in Envs : CopyConstruct(i, j, e)
  \/ \E i, j \in Vecs, e \in Envs : CopyAssign(i, j, e)
  \/ \E i, j \in Vecs : MoveConstruct(i, j)
  \/ \E i, j \in Vecs : MoveAssign(i, j)
  \/ \E i \in Vecs : Construct(i)
  \/ \E i \in Vecs : Destroy(i)

Spec == Init /\ [][Next]_vars

-----------------------------------------------------------------------------
(* The growth specification: VectorHIMEM<T> v; followed by push_back and   *)
(* insert calls on it, for an element type of one byte, whose size divides *)
(* the block size, and for one of three bytes, whose size does not.        *)
(* ghost[1].tracked: only push_back was called, with no hardware call      *)
(* denied; ghost[1].seq then holds the values pushed.                      *)

\* sizeof(T) of the element types the vector is instantiated with
ElemSizes == {1, 3}

\* VectorHIMEM<T> v;
GrowInit ==
  /\ sizeofT \in ElemSizes
  /\ temps = <<>>
  /\ initialized = FALSE
  /\ fileData = <<>>
  /\ hw = HwInit
  /\ mgr = <<>>
  /\ vec = [i \in Vecs |-> [alive |-> i = 1, v |-> VectorHIMEM]]
  /\ ghost = [i \in Vecs |-> [tracked |-> i = 1, seq |-> <<>>]]
  /\ last = NoCall
  /\ steps = 0

GrowStep ==
  /\ steps < MaxGrowOps
  /\ steps' = steps + 1
  /\ UNCHANGED <<mgr, sizeofT, temps, initialized, fileData>>

\* v.push_back(value);
GrowPushBack(value, e) ==
  /\ GrowStep
  /\ \E r \in {push_back(EnvWorld(e), vec[1].v, value)} :
        /\ hw' = HwOf(r.w)
        /\ vec' = [vec EXCEPT ![1].v = r.v]
        /\ ghost' = Track(1, r.w.log, Append(ghost[1].seq, value))
        /\ last' = VCall("push_back", 1, 0, 0, value, r.w.log)

\* v.insert(pos, value);
GrowInsert(pos, value, e) ==
  /\ GrowStep
  /\ \E r \in {insert(EnvWorld(e), vec[1].v, pos, value)} :
        /\ hw' = HwOf(r.w)
        /\ vec' = [vec EXCEPT ![1].v = r.v]
        /\ ghost' = [ghost EXCEPT ![1] = Untracked]
        /\ last' = VCall("insert", 1, 0, pos, value, r.w.log)

GrowNext ==
  \/ \E value \in Values, e \in Envs : GrowPushBack(value, e)
  \/ \E pos \in Positions, value \in Values, e \in Envs : GrowInsert(pos, value, e)

SpecGrow == GrowInit /\ [][GrowNext]_vars

-----------------------------------------------------------------------------
(* The accessor specification: VectorHIMEM<T> a{...}, b{...}; of           *)
(* three-byte elements, read with at, operator[], front, back and ==,      *)
(* with push_back and pop_back in between.  at, operator[], front and back *)
(* return a reference to their static T temp; ghost is the reference the   *)
(* caller keeps, the one the first accessor call returned: the accessor    *)
(* whose temp it refers to, and the value the caller last saw or stored    *)
(* through it.                                                             *)

\* the accessors with a static T, and the const operator[] that operator==
\* reads through, whose static T is named result
Accessors == {"at", "index", "front", "back"}
Statics == Accessors \cup {"result"}

\* a static T of a trivial type is zero-initialised
ZeroElem == [k \in 1..sizeofT |-> 0]

\* what the hardware does during one accessor call: it grants every mapping
\* call, or denies every one
AccessEnvs == {e \in Envs : ~e.deny /\ e.junk = 0 /\ e.fail \in {{}, FailAll}}

\* positions within both vectors, past the size of one, past its capacity, and
\* one whose byte offset wraps in size_t
AccessPositions == {0, 1, min_elements, 2 * min_elements + 1, OverflowCount}

NoReference == [fn |-> "none", value |-> <<>>]

\* the reference the caller keeps after an accessor returned value from the
\* static T of fn, or threw
Hold(fn, value, thrown) ==
  IF ghost.fn = "none" /\ ~thrown THEN [fn |-> fn, value |-> value] ELSE ghost

ACall(op, i, j, pos, ret, value, log, thrown) ==
  [op |-> op, i |-> i, j |-> j, offset |-> pos, length |-> 0, ret |-> ret,
   ret2 |-> 0, src |-> <<>>, dest |-> value, log |-> log, thrown |-> thrown,
   pre |-> [hw |-> hw, vec |-> vec, temps |-> temps]]

AccessInit ==
  /\ sizeofT = 3
  /\ temps = [fn \in Statics |-> ZeroElem]
  /\ initialized = FALSE
  /\ fileData = <<>>
  /\ \E lists \in InitLists :
    \E a \in {vector_from_list(World(HwInit, {}, FALSE, 0), lists[1])} :
    \E b \in {vector_from_list(World(HwOf(a.w), {}, FALSE, 0), lists[2])} :
       /\ hw = HwOf(b.w)
       /\ mgr = <<>>
       /\ vec = [i \in Vecs |-> [alive |-> TRUE, v |-> IF i = 1 THEN a.v ELSE b.v]]
       /\ ghost = NoReference
       /\ last = NoCall
       /\ steps = 0

AccessStep ==
  /\ steps < MaxAccessOps
  /\ steps' = steps + 1
  /\ UNCHANGED <<mgr, sizeofT, initialized, fileData>>

\* T& r = v.at(pos);
AAt(i, pos, e) ==
  /\ AccessStep
  /\ \E r \in {at(EnvWorld(e), vec[i].v, temps["at"], pos)} :
        /\ hw' = HwOf(r.w)
        /\ vec' = [vec EXCEPT ![i].v.memory = r.m]
        /\ temps' = [temps EXCEPT !["at"] = r.dest]
        /\ ghost' = Hold("at", r.dest, r.thrown)
        /\ last' = ACall("at", i, 0, pos, r.ret, r.dest, r.w.log, r.thrown)

\* T& r = v[pos];
AIndex(i, pos, e) ==
  /\ AccessStep
  /\ \E r \in {index_read(EnvWorld(e), vec[i].v, temps["index"], pos)} :
        /\ hw' = HwOf(r.w)
        /\ vec' = [vec EXCEPT ![i].v.memory = r.m]
        /\ temps' = [temps EXCEPT !["index"] = r.dest]
        /\ ghost' = Hold("index", r.dest, FALSE)
        /\ last' = ACall("index", i, 0, pos, r.ret, r.dest, r.w.log, FALSE)

\* T& r = v.front();
AFront(i, e) ==
  /\ AccessStep
  /\ \E r \in {front(EnvWorld(e), vec[i].v, temps["front"])} :
        /\ hw' = HwOf(r.w)
        /\ vec' = [vec EXCEPT ![i].v.memory = r.m]
        /\ temps' = [temps EXCEPT !["front"] = r.dest]
        /\ ghost' = Hold("front", r.dest, FALSE)
        /\ last' = ACall("front", i, 0, 0, r.ret, r.dest, r.w.log, FALSE)

\* T& r = v.back();
ABack(i, e) ==
  /\ AccessStep
  /\ \E r \in {back(EnvWorld(e), vec[i].v, temps["back"])} :
        /\ hw' = HwOf(r.w)
        /\ vec' = [vec EXCEPT ![i].v.memory = r.m]
        /\ temps' = [temps EXCEPT !["back"] = r.dest]
        /\ ghost' = Hold("back", r.dest, FALSE)
        /\ last' = ACall("back", i, 0, 0, r.ret, r.dest, r.w.log, FALSE)

\* a == b; a == a reads every element twice through the one object
AEquals(i, j, e) ==
  /\ AccessStep
  /\ \E r \in {operator_equals(EnvWorld(e), vec[i].v, vec[j].v, temps["result"],
                               i = j)} :
        /\ hw' = HwOf(r.w)
        /\ vec' = [k \in Vecs |->
                     IF k = j THEN [vec[k] EXCEPT !.v.memory = r.rhs]
                     ELSE IF k = i THEN [vec[k] EXCEPT !.v.memory = r.lhs]
                     ELSE vec[k]]
        /\ temps' = [temps EXCEPT !["result"] = r.result]
        /\ ghost' = ghost
        /\ last' = ACall("equals", i, j, 0, Bool(r.equal), <<>>, r.w.log, FALSE)

\* r = value; through the reference the caller keeps
AModify(value) ==
  /\ AccessStep
  /\ ghost.fn # "none"
  /\ hw' = hw
  /\ vec' = vec
  /\ temps' = [temps EXCEPT ![ghost.fn] = value]
  /\ ghost' = [ghost EXCEPT !.value = value]
  /\ last' = ACall("modify", 0, 0, 0, 0, value, <<>>, FALSE)

\* v.push_back(value); on hardware that grants every request
APushBack(i, value) ==
  /\ AccessStep
  /\ \E r \in {push_back(World(hw, {}, FALSE, 0), vec[i].v, value)} :
        /\ hw' = HwOf(r.w)
        /\ vec' = [vec EXCEPT ![i].v = r.v]
        /\ temps' = temps
        /\ ghost' = ghost
        /\ last' = ACall("push_back", i, 0, 0, 0, value, r.w.log, FALSE)

\* v.pop_back();
APopBack(i) ==
  /\ AccessStep
  /\ hw' = hw
  /\ vec' = [vec EXCEPT ![i].v = pop_back(@)]
  /\ temps' = temps
  /\ ghost' = ghost
  /\ last' = ACall("pop_back", i, 0, 0, 0, <<>>, <<>>, FALSE)

AccessNext ==
  \/ \E i \in Vecs, pos \in AccessPositions, e \in AccessEnvs : AAt(i, pos, e)
  \/ \E i \in Vecs, pos \in AccessPositions, e \in AccessEnvs : AIndex(i, pos, e)
  \/ \E i \in Vecs, e \in AccessEnvs : AFront(i, e)
  \/ \E i \in Vecs, e \in AccessEnvs : ABack(i, e)
  \/ \E i, j \in Vecs, e \in AccessEnvs : AEquals(i, j, e)
  \/ \E value \in Values : AModify(value)
  \/ \E i \in Vecs, value \in Values : APushBack(i, value)
  \/ \E i \in Vecs : APopBack(i)

SpecAccess == AccessInit /\ [][AccessNext]_vars

-----------------------------------------------------------------------------
(* class HIMEMClass (HIMEM.h) and class PSRAMClass (PSRAM.h): the name     *)
(* registry.  The two classes have the same code over VectorHIMEM<uint8_t> *)
(* and VectorPSRAM<uint8_t>.  A registry object c is its two members;      *)
(* fileData, the std::map, is a function from the names that have an entry *)
(* to their vectors.  Of the file object that open returns, what open sets *)
(* is kept: the entry given to setVector, the name and the mode.           *)

\* the Arduino file modes
FILE_READ == 0
FILE_WRITE == 1
FILE_APPEND == 2

\* HIMEMClass HIMEM: the member initialisers
HIMEMClass == [initialized |-> FALSE, fileData |-> [n \in {} |-> VectorHIMEM]]

\* the mode byte as a FileMode
file_mode(mode) ==
  CASE mode = FILE_READ -> "READ"
    [] mode = FILE_WRITE -> "WRITE"
    [] mode = FILE_APPEND -> "APPEND"
    [] OTHER -> "READ_WRITE"

\* FileHIMEM emptyFile;
EmptyFile == [vector |-> "", name |-> "", mode |-> "none"]

\* FileHIMEM file; file.setVector(&entry); file.setName(filename);
\* file.open(fileMode);
OpenFile(filename, mode) ==
  [vector |-> filename, name |-> filename, mode |-> file_mode(mode)]

\* the map with the entry of filename set to v, and with it erased
MapPut(map, filename, v) ==
  [n \in DOMAIN map \cup {filename} |-> IF n = filename THEN v ELSE map[n]]
MapErase(map, filename) == [n \in DOMAIN map \ {filename} |-> map[n]]

\* bool begin(): free_size is what esp_himem_get_free_size() returns
begin(c, free_size) ==
  IF free_size > 0
  THEN [c |-> [c EXCEPT !.initialized = TRUE], ret |-> TRUE]
  ELSE [c |-> [c EXCEPT !.initialized = FALSE], ret |-> FALSE]

\* a variant of exists that lacks the check of initialized
exists_unchecked(c, filename) == filename \in DOMAIN c.fileData

\* bool exists(const char* filename)
exists(c, filename) ==
  IF ~c.initialized THEN FALSE ELSE filename \in DOMAIN c.fileData

\* fileData[filenameStr] = VectorHIMEM<uint8_t>(): the entry is default
\* constructed, move-assigned from the temporary, and the temporary destroyed
create_entry(w, c, filename) ==
  The({The({[w |-> d.w, c |-> [c EXCEPT !.fileData = MapPut(@, filename, mv.v)]]
            : d \in {vector_destroy(mv.w, mv.other)}})
       : mv \in {vector_move_assign(w, VectorHIMEM, VectorHIMEM)}})

\* a variant of open that creates the entry whatever the mode
open_create_always(w, c, filename, mode) ==
  IF ~c.initialized
  THEN [w |-> w, c |-> c, file |-> EmptyFile]
  ELSE IF filename \in DOMAIN c.fileData
  THEN [w |-> w, c |-> c, file |-> OpenFile(filename, mode)]
  ELSE The({[w |-> r.w, c |-> r.c, file |-> OpenFile(filename, mode)]
            : r \in {create_entry(w, c, filename)}})

\* FileHIMEM open(const char* filename, uint8_t mode)
open(w, c, filename, mode) ==
  IF ~c.initialized
  THEN [w |-> w, c |-> c, file |-> EmptyFile]
  ELSE IF filename \in DOMAIN c.fileData
  THEN [w |-> w, c |-> c, file |-> OpenFile(filename, mode)]
  ELSE IF mode # FILE_READ
  THEN The({[w |-> r.w, c |-> r.c, file |-> OpenFile(filename, mode)]
            : r \in {create_entry(w, c, filename)}})
  ELSE [w |-> w, c |-> c, file |-> EmptyFile]

\* bool remove(const char* filename): erase destroys the vector of the entry
remove(w, c, filename) ==
  IF ~c.initialized
  THEN [w |-> w, c |-> c, ret |-> FALSE]
  ELSE IF filename \in DOMAIN c.fileData
  THEN The({[w |-> d.w, c |-> [c EXCEPT !.fileData = MapErase(@, filename)],
             ret |-> TRUE]
            : d \in {vector_destroy(w, c.fileData[filename])}})
  ELSE [w |-> w, c |-> c, ret |-> FALSE]

-----------------------------------------------------------------------------
(* The registry specification: the object HIMEM and the calls begin,       *)
(* exists, open and remove a sketch makes on it.  ghost is the set of      *)
(* names for which open was called with a mode other than FILE_READ while  *)
(* the registry was initialized, and for which no remove has returned true *)
(* since.                                                                  *)

Names == {"a", "b"}

\* the mode bytes: the three named modes and one that is none of them
Modes == {FILE_READ, FILE_WRITE, FILE_APPEND, FILE_APPEND + 1}

\* what esp_himem_get_free_size() reports: nothing, or a block
FreeSizes == {0, ESP_HIMEM_BLKSZ}

\* the registry object
Registry == [initialized |-> initialized, fileData |-> fileData]

RCall(op, name, mode, ret, file, log) ==
  [op |-> op, name |-> name, mode |-> mode, ret |-> ret, file |-> file,
   log |-> log,
   pre |-> [hw |-> hw, initialized |-> initialized, fileData |-> fileData,
            ghost |-> ghost]]

RegistryInit ==
  /\ sizeofT = 1
  /\ temps = <<>>
  /\ hw = HwInit
  /\ mgr = <<>>
  /\ vec = <<>>
  /\ initialized = HIMEMClass.initialized
  /\ fileData = HIMEMClass.fileData
  /\ ghost = {}
  /\ last = NoCall
  /\ steps = 0

RegistryStep ==
  /\ steps < MaxRegistryOps
  /\ steps' = steps + 1
  /\ UNCHANGED <<mgr, vec, sizeofT, temps>>

\* HIMEM.begin();
RBegin(free_size) ==
  /\ RegistryStep
  /\ \E r \in {begin(Registry, free_size)} :
        /\ initialized' = r.c.initialized
        /\ fileData' = r.c.fileData
        /\ hw' = hw
        /\ ghost' = ghost
        /\ last' = RCall("begin", "", free_size, r.ret, EmptyFile, <<>>)

\* HIMEM.exists(name);
RExists(name) ==
  /\ RegistryStep
  /\ UNCHANGED <<initialized, fileData, hw, ghost>>
  /\ last' = RCall("exists", name, 0, exists(Registry, name), EmptyFile, <<>>)

\* HIMEM.open(name, mode);
ROpen(name, mode) ==
  /\ RegistryStep
  /\ \E r \in {open(World(hw, {}, FALSE, 0), Registry, name, mode)} :
        /\ initialized' = r.c.initialized
        /\ fileData' = r.c.fileData
        /\ hw' = HwOf(r.w)
        /\ ghost' = IF initialized /\ mode # FILE_READ THEN ghost \cup {name}
                    ELSE ghost
        /\ last' = RCall("open", name, mode, FALSE, r.file, r.w.log)

\* HIMEM.remove(name);
RRemove(name) ==
  /\ RegistryStep
  /\ \E r \in {remove(World(hw, {}, FALSE, 0), Registry, name)} :
        /\ initialized' = r.c.initialized
        /\ fileData' = r.c.fileData
        /\ hw' = HwOf(r.w)
        /\ ghost' = IF r.ret THEN ghost \ {name} ELSE ghost
        /\ last' = RCall("remove", name, 0, r.ret, EmptyFile, r.w.log)

RegistryNext ==
  \/ \E free_size \in FreeSizes : RBegin(free_size)
  \/ \E name \in Names : RExists(name)
  \/ \E name \in Names, mode \in Modes : ROpen(name, mode)
  \/ \E name \in Names : RRemove(name)

SpecRegistry == RegistryInit /\ [][RegistryNext]_vars

-----------------------------------------------------------------------------
(* Properties of the window manager, checked under SpecBlock *)

\* the manager the last call was made on, as it was before the call
PreMgr == last.pre.mgr[last.i].b

\* the bytes of the region the manager held before the last call
PreData == last.pre.hw.mem[PreMgr.handle].data

\* the number of bytes of the requested range that lie inside the region
InRegion == Min(last.length, PreMgr.size - last.offset)

\* what a read leaves in the caller's buffer when it copies n bytes
DestAfter(n) ==
  [k \in 1..BufLen |-> IF k <= n THEN PreData[last.offset + k] ELSE Blank]

\* what a write leaves in the regions when it copies n bytes
MemAfter(n) ==
  [last.pre.hw.mem EXCEPT ![PreMgr.handle].data =
     [k \in 1..Len(@) |->
        IF k > last.offset /\ k <= last.offset + n
        THEN last.src[k - last.offset] ELSE @[k]]]

\* the positions in a log of the calls that ask the hardware for a mapping
MapCalls(log) ==
  {k \in 1..Len(log) : log[k][1] \in {"reserve", "map", "map_denied", "map_invalid"}}
DeniedCalls(log) ==
  {k \in 1..Len(log) :
     log[k][1] = "map_denied" \/ (log[k][1] = "reserve" /\ log[k][2] = 0)}

\* C1: on an allocated manager, with offset + length <= size and no remap
\* refused, write(src, offset, length) followed by read(dest, offset, length)
\* both return length and leave dest equal to src over those length bytes,
\* whichever block was mapped before and however many blocks the range spans.
C1_RoundTrip ==
  (/\ last.op = "write_read"
   /\ PreMgr.handle # 0
   /\ last.offset + last.length <= PreMgr.size
   /\ ~MapDenied(last.log))
  => /\ last.ret2 = last.length
     /\ last.ret = last.length
     /\ Prefix(last.dest, last.length) = Prefix(last.src, last.length)

\* a round trip over three blocks made while another block was mapped
C1_Witness ==
  /\ last.op = "write_read"
  /\ PreMgr.handle # 0
  /\ last.offset + last.length <= PreMgr.size
  /\ ~MapDenied(last.log)
  /\ last.length > 2 * ESP_HIMEM_BLKSZ
  /\ PreMgr.current_mapped_block \notin {SIZE_MAX, last.offset \div ESP_HIMEM_BLKSZ}
  /\ last.ret = last.length

\* C7: allocate on a manager that already holds a region fails, leaves the
\* handle, size, mapping and region contents as they were, and asks the
\* hardware for nothing; allocate also fails when the hardware denies the
\* region.
C7_AllocateOnce ==
  last.op = "allocate"
  => /\ PreMgr.handle # 0
          => /\ last.ret = 0
             /\ mgr[last.i].b = PreMgr
             /\ hw = last.pre.hw
             /\ last.log = <<>>
     /\ AllocDenied(last.log)
          => /\ last.ret = 0
             /\ mgr[last.i].b.handle = 0

\* allocate called on a manager that holds a region with a block mapped
C7_Witness ==
  /\ last.op = "allocate"
  /\ PreMgr.handle # 0
  /\ PreMgr.mapped_ptr # 0
  /\ last.ret = 0

\* the smallest multiple of the block size that is >= n, in the integers
SmallestMultiple(n) ==
  ((n + ESP_HIMEM_BLKSZ - 1) \div ESP_HIMEM_BLKSZ) * ESP_HIMEM_BLKSZ

\* C8: for every requested_bytes of the size type, a successful
\* allocate(requested_bytes) asks the hardware for, and records as the region
\* size, the smallest multiple of the block size that is >= requested_bytes.
C8_RoundUp ==
  (last.op = "allocate" /\ last.ret = 1)
  => /\ mgr[last.i].b.size = SmallestMultiple(last.length)
     /\ last.log = <<<<"alloc", SmallestMultiple(last.length), mgr[last.i].b.handle>>>>

\* C9: read returns 0 and copies nothing when the manager is unallocated or
\* offset >= size; otherwise, when no remap is refused, it returns
\* min(length, size - offset), copies exactly those bytes of the region and
\* none at or beyond the region end.  write is the same with the copy
\* direction reversed.
C9_Clamp ==
  last.op \in {"read", "write"}
  => IF PreMgr.handle = 0 \/ last.offset >= PreMgr.size
     THEN /\ last.ret = 0
          /\ last.op = "read" => last.dest = DestBuf
          /\ hw = last.pre.hw
          /\ last.log = <<>>
     ELSE ~MapDenied(last.log)
          => /\ last.ret = InRegion
             /\ hw.bad = last.pre.hw.bad
             /\ last.op = "read"
                  => last.dest = DestAfter(InRegion) /\ hw.mem = last.pre.hw.mem
             /\ last.op = "write" => hw.mem = MemAfter(InRegion)

\* a read that starts inside the region, runs past its end and is cut short
\* after more than one block
C9_Witness ==
  /\ last.op = "read"
  /\ PreMgr.handle # 0
  /\ last.offset < PreMgr.size
  /\ last.length > PreMgr.size - last.offset
  /\ ~MapDenied(last.log)
  /\ last.ret = PreMgr.size - last.offset
  /\ last.ret > ESP_HIMEM_BLKSZ

\* the bytes of the blocks of the requested range that were mapped before the
\* hardware refused a remap: the first block counts when it was mapped already
DoneBlocks ==
  HwCalls(last.log, "map")
    + Bool(PreMgr.current_mapped_block = last.offset \div ESP_HIMEM_BLKSZ)
DoneBytes ==
  IF DoneBlocks = 0 THEN 0
  ELSE (last.offset \div ESP_HIMEM_BLKSZ + DoneBlocks) * ESP_HIMEM_BLKSZ - last.offset

\* C10: when a remap is refused part-way through a range, read and write
\* return the number of bytes of the blocks before the failing one; those
\* bytes are the leading prefix of the range, no byte after them is copied,
\* and the refused remap is not tried again.
C10_ShortOnRefusal ==
  (last.op \in {"read", "write"} /\ MapDenied(last.log))
  => /\ last.ret = DoneBytes
     /\ last.ret < InRegion
     /\ last.op = "read"
          => last.dest = DestAfter(DoneBytes) /\ hw.mem = last.pre.hw.mem
     /\ last.op = "write" => hw.mem = MemAfter(DoneBytes)
     /\ Cardinality(DeniedCalls(last.log)) = 1
     /\ \A k \in MapCalls(last.log) : \A d \in DeniedCalls(last.log) : k <= d

\* a write cut short by a refused remap after at least one block was written
C10_Witness ==
  /\ last.op = "write"
  /\ MapDenied(last.log)
  /\ last.ret > 0
  /\ last.ret < InRegion

\* the caller's buffer from byte n on
BufFrom(buf, n) == [k \in 1..(Len(buf) - n) |-> buf[k + n]]

\* the bytes of [offset, offset + length) from offset + done up to the next
\* block boundary or the end of the range
Piece(offset, length, done) ==
  Min(ESP_HIMEM_BLKSZ - ((offset + done) % ESP_HIMEM_BLKSZ), length - done)

\* a caller that makes one call per block of the range, on hardware that
\* grants every request, and stops at the first call that comes back short
SplitLocals(m, buf, offset, length) ==
  [w |-> World(last.pre.hw, {}, FALSE, 0), m |-> m, buf |-> buf,
   offset |-> offset, length |-> length, done |-> 0, ok |-> TRUE]

RECURSIVE SplitRead(_)
SplitRead(s) ==
  IF s.done < s.length /\ s.ok
  THEN The({The({SplitRead([s EXCEPT !.w = r.w, !.m = r.m,
                                     !.buf = Prefix(s.buf, s.done) \o r.dest,
                                     !.done = s.done + r.ret,
                                     !.ok = (r.ret = n)])
                 : r \in {read(s.w, s.m, BufFrom(s.buf, s.done), s.offset + s.done, n)}})
            : n \in {Piece(s.offset, s.length, s.done)}})
  ELSE s

RECURSIVE SplitWrite(_)
SplitWrite(s) ==
  IF s.done < s.length /\ s.ok
  THEN The({The({SplitWrite([s EXCEPT !.w = r.w, !.m = r.m,
                                      !.done = s.done + r.ret,
                                      !.ok = (r.ret = n)])
                 : r \in {write(s.w, s.m, BufFrom(s.buf, s.done), s.offset + s.done, n)}})
            : n \in {Piece(s.offset, s.length, s.done)}})
  ELSE s

\* C11: when no remap is refused, a read or a write of [offset, offset+length)
\* returns the same byte count, leaves the same bytes in the destination and
\* the same region contents as the calls a caller makes when it splits the
\* range at every block boundary and reads or writes one block at a time.
C11_SplitAtBoundaries ==
  /\ (last.op = "read" /\ ~MapDenied(last.log))
       => \A s \in {SplitRead(SplitLocals(PreMgr, DestBuf, last.offset, last.length))} :
             /\ last.ret = s.done
             /\ last.dest = s.buf
             /\ hw.mem = s.w.mem
  /\ (last.op = "write" /\ ~MapDenied(last.log))
       => \A s \in {SplitWrite(SplitLocals(PreMgr, last.src, last.offset, last.length))} :
             /\ last.ret = s.done
             /\ hw.mem = s.w.mem

\* a read that starts inside a block and crosses two block boundaries
C11_Witness ==
  /\ last.op = "read"
  /\ ~MapDenied(last.log)
  /\ last.offset % ESP_HIMEM_BLKSZ # 0
  /\ last.ret = last.length
  /\ (last.offset + last.length - 1) \div ESP_HIMEM_BLKSZ
        >= last.offset \div ESP_HIMEM_BLKSZ + 2
  /\ \E k \in 1..last.ret : last.dest[k] \notin {0, Blank}

\* whether the last call left the hardware and every manager as they were
\* and made no hardware call
BlockNoOp == hw = last.pre.hw /\ mgr = last.pre.mgr /\ last.log = <<>>

\* C12: unmap() on a manager with nothing mapped and free() on a manager with
\* nothing allocated change no state and make no hardware call; after any
\* unmap() a second unmap(), and after any free() a second free(), changes
\* nothing and makes no hardware call.
C12_ReleaseIdempotent ==
  /\ (last.op = "unmap" /\ PreMgr.mapped_ptr = 0) => BlockNoOp
  /\ (last.op = "free" /\ PreMgr.handle = 0) => BlockNoOp
  /\ last.op = "unmap"
       => \A r \in {unmap(World(hw, {}, FALSE, 0), mgr[last.i].b)} :
             r.m = mgr[last.i].b /\ HwOf(r.w) = hw /\ r.w.log = <<>>
  /\ last.op = "free"
       => \A r \in {free(World(hw, {}, FALSE, 0), mgr[last.i].b)} :
             r.m = mgr[last.i].b /\ HwOf(r.w) = hw /\ r.w.log = <<>>

\* free() on a manager that holds nothing while the hardware has a live
\* region with a block mapped, held by the other manager
C12_Witness ==
  /\ last.op = "free"
  /\ PreMgr.handle = 0
  /\ BlockNoOp
  /\ \E h \in Handles : hw.mem[h].live
  /\ \E r \in Ranges : hw.rng[r].live

\* the manager the last call moved from, as it was before the call
PreOther == last.pre.mgr[last.j].b

\* the managers that hold region handle h
Holders(h) == {i \in Mgrs : mgr[i].b.handle = h}

\* C13: after a manager is move-constructed or move-assigned from another
\* manager, it holds that manager's handle, region size and mapping state, the
\* source is in the empty state, and free() on the source (which is also what
\* its destruction runs) makes no hardware call; in every state each region
\* handle is held by at most one manager.
C13_MoveTransfers ==
  /\ (last.op \in {"move_construct", "move_assign"} /\ last.i # last.j)
       => /\ mgr[last.i].b = PreOther
          /\ mgr[last.j].b = HimemBlock
          /\ \A r \in {free(World(hw, {}, FALSE, 0), mgr[last.j].b)} :
                r.w.log = <<>> /\ HwOf(r.w) = hw
  /\ \A h \in Handles : Cardinality(Holders(h)) <= 1

\* a move assignment from a manager that holds a region with a block mapped
C13_Witness ==
  /\ last.op = "move_assign"
  /\ last.i # last.j
  /\ PreOther.handle # 0
  /\ PreOther.mapped_ptr # 0
  /\ mgr[last.i].b.handle = PreOther.handle
  /\ hw.mem[PreOther.handle].live

\* the number of calls named name among the first k hardware calls of a log,
\* and the number of mapping ranges granted among them
CallsUpTo(log, k, name) == Cardinality({a \in 1..k : log[a][1] = name})
GrantedUpTo(log, k) ==
  Cardinality({a \in 1..k : log[a][1] = "reserve" /\ log[a][2] # 0})

\* the live mappings and the reserved mapping ranges of the manager the last
\* call was made on, after the first k hardware calls of that call
MappingsAfter(k) ==
  Bool(PreMgr.mapped_ptr # 0) + CallsUpTo(last.log, k, "map")
    - CallsUpTo(last.log, k, "unmap")
RangesAfter(k) ==
  Bool(PreMgr.range # 0) + GrantedUpTo(last.log, k)
    - CallsUpTo(last.log, k, "release")

\* the mapping ranges the hardware has reserved, and the managers that hold r
LiveRanges == {r \in Ranges : hw.rng[r].live}
RangeHolders(r) == {i \in Mgrs : mgr[i].b.range = r}

\* C29: a manager has at most one live mapping and at most one reserved
\* mapping range, between calls and after every hardware call within a call;
\* so the unmap of the block that was mapped comes before the map of the next.
C29_OneMapping ==
  /\ \A r \in LiveRanges :
       /\ Cardinality(RangeHolders(r)) = 1
       /\ hw.rng[r].handle # 0
            => \A i \in RangeHolders(r) :
                 mgr[i].b.mapped_ptr = r /\ mgr[i].b.handle = hw.rng[r].handle
  /\ \A i \in Mgrs :
       /\ mgr[i].b.range # 0 => mgr[i].b.range \in LiveRanges
       /\ mgr[i].b.mapped_ptr # 0 => mgr[i].b.mapped_ptr = mgr[i].b.range
  /\ last.op # "init"
       => \A k \in 0..Len(last.log) :
            /\ MappingsAfter(k) \in {0, 1}
            /\ RangesAfter(k) \in {0, 1}
            /\ MappingsAfter(k) <= RangesAfter(k)

\* a read that goes from the block that was mapped to two further ones: each
\* remap unmaps and releases before it reserves and maps
C29_Witness ==
  /\ last.op = "read"
  /\ PreMgr.mapped_ptr # 0
  /\ HwCalls(last.log, "map") >= 2
  /\ HwCalls(last.log, "unmap") >= 2
  /\ ~MapDenied(last.log)
  /\ mgr[last.i].b.mapped_ptr # 0
  /\ mgr[last.i].b.current_mapped_block # PreMgr.current_mapped_block

\* a manager is given, by move assignment, a region of which a block other than
\* the first is mapped; the manager it came from records no block
C30_Witness ==
  /\ last.op = "move_assign"
  /\ last.i # last.j
  /\ mgr[last.i].b.current_mapped_block # SIZE_MAX
  /\ mgr[last.i].b.current_mapped_block >= 1
  /\ mgr[last.i].b.current_mapped_block = PreOther.current_mapped_block
  /\ mgr[last.j].b.current_mapped_block = SIZE_MAX

\* C30: the block index a manager records is SIZE_MAX, for none, or the index
\* of a block of the region it holds: less than size / ESP_HIMEM_BLKSZ.
C30_BlockIndexInRegion ==
  \A i \in Mgrs :
    \/ mgr[i].b.current_mapped_block = SIZE_MAX
    \/ /\ mgr[i].b.handle # 0
       /\ mgr[i].b.current_mapped_block < mgr[i].b.size \div ESP_HIMEM_BLKSZ
       /\ hw.mem[mgr[i].b.handle].live
       /\ mgr[i].b.size = hw.mem[mgr[i].b.handle].size

\* whether the range of the last read or write is not empty and lies in
\* the one block the manager had mapped, so that ensure_block_mapped is
\* called once, with the index of the mapped block
InMappedBlock ==
  /\ PreMgr.handle # 0
  /\ last.offset < PreMgr.size
  /\ InRegion > 0
  /\ PreMgr.current_mapped_block = last.offset \div ESP_HIMEM_BLKSZ
  /\ (last.offset % ESP_HIMEM_BLKSZ) + InRegion <= ESP_HIMEM_BLKSZ

\* the mapping ranges that were reserved before the last call
PreLiveRanges == {r \in Ranges : last.pre.hw.rng[r].live}

\* C31: ensure_block_mapped(index), as read and write call it, makes no
\* hardware call and changes nothing of the manager when index is the block
\* already mapped; when the hardware denies the mapping range or the map, the
\* read or write comes back short and the manager is unmapped: its block index
\* is SIZE_MAX, it has no mapped pointer and no mapping range, the hardware
\* holds no range reserved for it, and no mapping call follows the denied one.
C31_EnsureBlockMapped ==
  last.op \in {"read", "write"}
  => /\ InMappedBlock
          => /\ last.log = <<>>
             /\ mgr = last.pre.mgr
             /\ hw.rng = last.pre.hw.rng
             /\ last.ret = InRegion
     /\ MapDenied(last.log)
          => /\ last.ret < InRegion
             /\ mgr[last.i].b.current_mapped_block = SIZE_MAX
             /\ mgr[last.i].b.mapped_ptr = 0
             /\ mgr[last.i].b.range = 0
             /\ mgr[last.i].b.handle = PreMgr.handle
             /\ mgr[last.i].b.size = PreMgr.size
             /\ LiveRanges = PreLiveRanges \ {PreMgr.range}
             /\ Cardinality(DeniedCalls(last.log)) = 1
             /\ \A d \in DeniedCalls(last.log) :
                  \A k \in (d + 1)..Len(last.log) :
                    last.log[k][1] = "release" /\ last.log[d][1] = "map_denied"

\* a read from the block that was mapped into the next one, whose map the
\* hardware denies after it granted the mapping range
C31_Witness ==
  /\ last.op = "read"
  /\ PreMgr.mapped_ptr # 0
  /\ PreMgr.current_mapped_block = last.offset \div ESP_HIMEM_BLKSZ
  /\ last.ret > 0
  /\ \E k \in 1..Len(last.log) : last.log[k][1] = "map_denied"
  /\ mgr[last.i].b.current_mapped_block = SIZE_MAX
  /\ LiveRanges = {}

\* the hardware calls free() makes on a manager m that holds a region
FreeCalls(m) ==
  IF m.mapped_ptr # 0
  THEN <<<<"unmap", m.range, 0>>, <<"release", m.range, 0>>, <<"free", m.handle, 0>>>>
  ELSE <<<<"free", m.handle, 0>>>>

\* C32: free() on a manager that holds a region unmaps the window and releases
\* the mapping range, if a block is mapped, before it frees the region, which
\* it frees once; afterwards the region and the range are gone, the hardware
\* saw no misuse, the manager is in the empty state (no handle, size 0,
\* nothing mapped), and an allocate on it succeeds when the hardware grants it.
C32_FreeReleasesMapping ==
  (last.op = "free" /\ PreMgr.handle # 0)
  => /\ last.log = FreeCalls(PreMgr)
     /\ hw.bad = last.pre.hw.bad
     /\ ~hw.mem[PreMgr.handle].live
     /\ LiveRanges = PreLiveRanges \ {PreMgr.range}
     /\ mgr[last.i].b = HimemBlock
     /\ get_size(mgr[last.i].b) = 0
     /\ \A r \in {allocate(World(hw, {}, FALSE, 0), mgr[last.i].b, ESP_HIMEM_BLKSZ)} :
          /\ r.ret
          /\ r.m.handle # 0
          /\ r.m.size = ESP_HIMEM_BLKSZ
          /\ r.w.mem[r.m.handle].live

\* free() on a manager whose region has a block other than the first mapped
C32_Witness ==
  /\ last.op = "free"
  /\ PreMgr.handle # 0
  /\ PreMgr.mapped_ptr # 0
  /\ PreMgr.current_mapped_block \notin {0, SIZE_MAX}
  /\ Len(last.log) = 3
  /\ mgr[last.i].b = HimemBlock

\* C36: after an allocate that failed because the hardware denied the region,
\* the manager is in the empty state: it holds no handle, get_size() is 0,
\* read and write return 0, and an allocate the hardware grants succeeds; and
\* in every state get_size() is nonzero only for a manager that holds a handle.
C36_DeniedAllocate ==
  /\ (last.op = "allocate" /\ AllocDenied(last.log))
       => /\ mgr[last.i].b.handle = 0
          /\ get_size(mgr[last.i].b) = 0
          /\ \A offset \in Offsets, length \in Lengths :
               /\ read(World(hw, {}, FALSE, 0), mgr[last.i].b, DestBuf, offset, length).ret = 0
               /\ write(World(hw, {}, FALSE, 0), mgr[last.i].b, SrcBuf(0), offset, length).ret = 0
          /\ allocate(World(hw, {}, FALSE, 0), mgr[last.i].b, ESP_HIMEM_BLKSZ).ret
  /\ \A i \in Mgrs : get_size(mgr[i].b) # 0 => mgr[i].b.handle # 0

\* the positions in a log of the calls that release the mapping range r, and
\* of those that were granted it
ReleasesOf(log, r) == {k \in 1..Len(log) : log[k][1] = "release" /\ log[k][2] = r}
GrantsOf(log, r) == {k \in 1..Len(log) : log[k][1] = "reserve" /\ log[k][2] = r}

\* C39: every mapping range the hardware granted is released exactly once: a
\* range is released only while reserved, so never twice; within a call the
\* ranges reserved before it plus those granted less those released are the
\* ranges reserved after it; between calls every reserved range is held by one
\* live manager, so none is left over after free() or the destructor, which
\* release the range the manager held; and in every state a manager's block
\* index is set exactly when it holds both a mapped pointer and a range.
C39_RangeReleasedOnce ==
  /\ hw.bad \cap {"double_release", "bad_unmap", "bad_map"} = {}
  /\ \A r \in LiveRanges : \E i \in Mgrs : mgr[i].alive /\ RangeHolders(r) = {i}
  /\ \A i \in Mgrs :
       mgr[i].b.current_mapped_block # SIZE_MAX
         <=> (mgr[i].b.mapped_ptr # 0 /\ mgr[i].b.range # 0)
  /\ last.op # "init"
       => /\ \A r \in Ranges :
               Bool(r \in PreLiveRanges) + Cardinality(GrantsOf(last.log, r))
                 - Cardinality(ReleasesOf(last.log, r)) = Bool(r \in LiveRanges)
          /\ \A r \in Ranges : \A k \in ReleasesOf(last.log, r) :
               \/ \E g \in GrantsOf(last.log, r) :
                    g < k /\ \A x \in ReleasesOf(last.log, r) : ~(g < x /\ x < k)
               \/ r \in PreLiveRanges /\ \A x \in ReleasesOf(last.log, r) : x >= k
  /\ last.op \in {"free", "destroy"}
       => /\ mgr[last.i].b.range = 0
          /\ mgr[last.i].b.mapped_ptr = 0
          /\ PreMgr.range # 0 => PreMgr.range \notin LiveRanges

\* a manager whose region has a block mapped is destroyed: the range it held
\* is released once and no range is left reserved
C39_Witness ==
  /\ last.op = "destroy"
  /\ PreMgr.range # 0
  /\ PreMgr.current_mapped_block # SIZE_MAX
  /\ Cardinality(ReleasesOf(last.log, PreMgr.range)) = 1
  /\ PreLiveRanges = {PreMgr.range}
  /\ LiveRanges = {}

-----------------------------------------------------------------------------
(* Properties of the vector, checked under Spec *)

\* the vector the last call was made on, as it was before the call
PreVec == last.pre.vec[last.i].v

\* what the static temp of operator[] holds before anything was read into it:
\* a value no caller stores
StaleElem == [k \in 1..sizeofT |-> Blank]

\* v[pos] on hardware h that grants every request
At(h, v, pos) == index_read(World(h, {}, FALSE, 0), v, StaleElem, pos).dest

\* the elements of v at the indices [0, size())
Elements(h, v) == [k \in 1..v.element_count |-> At(h, v, k - 1)]

\* the ordinary sequence the last call makes of the sequence s
Applied(s) ==
  CASE last.op = "push_back" -> Append(s, last.src)
    [] last.op = "insert" ->
         IF last.offset > Len(s) THEN s ELSE SeqInsert(s, last.offset, last.src)
    [] last.op = "erase" ->
         IF last.offset >= Len(s) THEN s ELSE SeqErase(s, last.offset)
    [] last.op = "resize_value" -> SeqResize(s, last.offset, last.src)
    [] OTHER -> s

\* C2: after any sequence of push_back, pop_back, insert, erase,
\* resize(n, value), reserve and clear in which no hardware call fails, size()
\* is the length of the ordinary sequence obtained by the same calls and every
\* index below size() reads the element of that sequence.
C2_RefinesSequence ==
  \A i \in Vecs :
    (vec[i].alive /\ ghost[i].tracked)
    => /\ vec[i].v.element_count = Len(ghost[i].seq)
       /\ Elements(hw, vec[i].v) = ghost[i].seq

\* C3: in every reachable state of a vector, with or without hardware
\* failures, size() <= capacity().
C3_SizeWithinCapacity ==
  \A i \in Vecs :
    vec[i].alive => vec[i].v.element_count <= vec[i].v.element_capacity

\* the handles of the regions the hardware has handed out and not got back
LiveHandles == {h \in Handles : hw.mem[h].live}

\* the vectors that hold handle h
Owners(h) == {i \in Vecs : vec[i].v.memory.handle = h}

\* C4: a region handle obtained by a successful allocate is given to
\* esp_himem_free exactly once over any sequence of growth, swap, copy, move
\* and destruction: no handle is freed twice, every region still live is held
\* by exactly one living vector, and no vector keeps a handle that was freed.
C4_FreedExactlyOnce ==
  /\ "double_free" \notin hw.bad
  /\ \A h \in LiveHandles :
       Cardinality(Owners(h)) = 1 /\ \A i \in Owners(h) : vec[i].alive
  /\ \A i \in Vecs : vec[i].v.memory.handle # 0
       => vec[i].v.memory.handle \in LiveHandles
  /\ \A k \in 1..Len(last.log) : last.log[k][1] = "free"
       => /\ last.pre.hw.mem[last.log[k][2]].live
             \/ \E a \in 1..(k - 1) :
                  last.log[a][1] = "alloc" /\ last.log[a][3] = last.log[k][2]
          /\ \A b \in 1..(k - 1) :
               (last.log[b][1] = "free" /\ last.log[b][2] = last.log[k][2])
               => \E a \in (b + 1)..(k - 1) :
                    last.log[a][1] = "alloc" /\ last.log[a][3] = last.log[k][2]

\* both vectors are destroyed, the last one held a region that its destruction
\* freed, and the hardware has every region back
C4_Witness ==
  /\ \A i \in Vecs : ~vec[i].alive
  /\ last.op = "destroy"
  /\ HwCalls(last.log, "free") = 1
  /\ PreVec.memory.handle # 0
  /\ LiveHandles = {}

\* C5: when the hardware denies the region during push_back, insert, resize
\* or reserve, size(), capacity() and every element below size() are what they
\* were before the call, and the old region is still held and was not freed.
C5_DeniedGrowth ==
  (/\ last.op \in {"push_back", "insert", "resize", "resize_value", "reserve"}
   /\ AllocDenied(last.log))
  => /\ vec[last.i].v.element_count = PreVec.element_count
     /\ vec[last.i].v.element_capacity = PreVec.element_capacity
     /\ Elements(hw, vec[last.i].v) = Elements(last.pre.hw, PreVec)
     /\ vec[last.i].v.memory.handle = PreVec.memory.handle
     /\ hw.mem = last.pre.hw.mem
     /\ HwCalls(last.log, "free") = 0

\* a push_back on a full vector of two elements whose growth the hardware
\* denies
C5_Witness ==
  /\ last.op = "push_back"
  /\ AllocDenied(last.log)
  /\ PreVec.element_count = min_elements
  /\ PreVec.memory.handle \in LiveHandles

\* C6: when an allocation or a remap fails during push_back, insert, erase or
\* resize(n, value), size() and the elements below size() are afterwards
\* either all those before the call or all those of the completed call.
C6_AllOrNothing ==
  (/\ last.op \in {"push_back", "insert", "erase", "resize_value"}
   /\ AllocDenied(last.log) \/ MapDenied(last.log))
  => Elements(hw, vec[last.i].v)
       \in {Elements(last.pre.hw, PreVec), Applied(Elements(last.pre.hw, PreVec))}

\* the calls that change the elements, the size or the capacity of one vector
Mutations ==
  {"push_back", "pop_back", "insert", "erase", "resize", "resize_value",
   "reserve", "clear"}

\* whether vector k has the size and the elements it had before the last call
SameContents(k) ==
  /\ vec[k].v.element_count = last.pre.vec[k].v.element_count
  /\ Elements(hw, vec[k].v) = Elements(last.pre.hw, last.pre.vec[k].v)

\* C14: after B is copy-constructed or copy-assigned from A and the hardware
\* has granted the region, B has the size of A and the element of A at every
\* index, A is as it was, and the two hold different regions; a later
\* push_back, pop_back, insert, erase, resize, reserve or clear on one vector
\* leaves the size and the elements of the other as they were.
C14_CopyIndependent ==
  /\ (/\ last.op \in {"copy_construct", "copy_assign"}
      /\ last.i # last.j
      /\ ~AllocDenied(last.log))
       => /\ vec[last.i].v.element_count = vec[last.j].v.element_count
          /\ Elements(hw, vec[last.i].v) = Elements(hw, vec[last.j].v)
          /\ SameContents(last.j)
          /\ vec[last.i].v.memory.handle # 0
               => vec[last.i].v.memory.handle # vec[last.j].v.memory.handle
  /\ last.op \in Mutations
       => \A k \in Vecs \ {last.i} : vec[k].alive => SameContents(k)

-----------------------------------------------------------------------------
(* Properties of growth, checked under SpecGrow *)

\* the vector of the growth specification, and the number of push_back calls
\* made on it when every call so far was a push_back that no hardware call
\* failed
Grown == vec[1].v
Pushes == Len(ghost[1].seq)

\* whether c is base multiplied by a power of two
RECURSIVE IsDoubled(_, _)
IsDoubled(c, base) ==
  \/ c = base
  \/ c > base /\ c % 2 = 0 /\ IsDoubled(c \div 2, base)

\* C15 as stated: starting from an empty vector, after N successful push_back
\* calls size() is N and capacity() >= N, and once the vector has grown
\* capacity() is min_elements multiplied by a power of two.
C15_PowerOfTwoCapacity ==
  ghost[1].tracked
  => /\ Grown.element_count = Pushes
     /\ Grown.element_capacity >= Pushes
     /\ Grown.element_capacity > 0 => IsDoubled(Grown.element_capacity, min_elements)

\* C15 amended: starting from an empty vector, after N successful push_back
\* calls size() is N and capacity() >= N; once the vector has grown,
\* capacity() is the number of whole elements in its region, which is a whole
\* number of blocks, and it is min_elements multiplied by a power of two when
\* sizeof(T) divides the block size.
C15_GrowthFromEmpty ==
  ghost[1].tracked
  => /\ Grown.element_count = Pushes
     /\ Elements(hw, Grown) = ghost[1].seq
     /\ Grown.element_capacity >= Pushes
     /\ Grown.element_capacity > 0
          => /\ Grown.element_capacity = get_size(Grown.memory) \div sizeofT
             /\ get_size(Grown.memory) % ESP_HIMEM_BLKSZ = 0
             /\ ESP_HIMEM_BLKSZ % sizeofT = 0
                  => IsDoubled(Grown.element_capacity, min_elements)

\* three successful pushes of three-byte elements: the vector has grown twice
\* and its capacity is neither two nor four
C15_Witness ==
  /\ ghost[1].tracked
  /\ sizeofT = 3
  /\ Pushes = min_elements + 1
  /\ Grown.element_count = min_elements + 1
  /\ Elements(hw, Grown) = ghost[1].seq
  /\ Grown.element_capacity = (2 * ESP_HIMEM_BLKSZ) \div sizeofT
  /\ ~IsDoubled(Grown.element_capacity, min_elements)
  /\ HwCalls(last.log, "alloc") = 1

\* the size in bytes of the region the growth policy asks for when the vector
\* has capacity c: min_elements elements, or twice as many as it has
GrowthBytes(c) ==
  SmallestMultiple((IF c = 0 THEN min_elements ELSE 2 * c) * sizeofT)

\* whether the last call was a push_back, or an insert at a position within
\* the vector, on a vector whose size was its capacity
GrewWhenFull ==
  /\ last.op \in {"push_back", "insert"}
  /\ last.op = "insert" => last.offset <= PreVec.element_count
  /\ PreVec.element_count = PreVec.element_capacity

\* the hardware was asked for one region, of the growth policy's size, and
\* granted it
RequestedGrowth ==
  /\ HwCalls(last.log, "alloc") = 1
  /\ \E k \in 1..Len(last.log) :
       /\ last.log[k][1] = "alloc"
       /\ last.log[k][2] = GrowthBytes(PreVec.element_capacity)
       /\ last.log[k][3] # 0

\* C16 as stated: when push_back or insert is called with size() = capacity()
\* and the allocation succeeds, the region asked for is of min_elements
\* elements if the capacity was 0 and of twice the capacity otherwise; the
\* capacity is min_elements after the first push_back and more than
\* min_elements after push_back number min_elements + 1.
C16_GrowthPolicy ==
  /\ (GrewWhenFull /\ ~AllocDenied(last.log)) => RequestedGrowth
  /\ (ghost[1].tracked /\ Pushes = 1) => Grown.element_capacity = min_elements
  /\ (ghost[1].tracked /\ Pushes = min_elements + 1)
       => Grown.element_capacity >= min_elements + 1

\* C16 amended: the same request, and the capacity is at least min_elements
\* after the first push_back, being the number of whole elements in the
\* region of whole blocks that was granted, and more than min_elements after
\* push_back number min_elements + 1.
C16_GrowthPolicyRounded ==
  /\ (GrewWhenFull /\ ~AllocDenied(last.log)) => RequestedGrowth
  /\ (ghost[1].tracked /\ Pushes = 1)
       => /\ Grown.element_capacity = GrowthBytes(0) \div sizeofT
          /\ Grown.element_capacity >= min_elements
  /\ (ghost[1].tracked /\ Pushes = min_elements + 1)
       => Grown.element_capacity >= min_elements + 1

\* push_back number three on a vector of two three-byte elements that is full:
\* a region of two blocks is asked for and granted, and the capacity becomes
\* five
C16_Witness ==
  /\ ghost[1].tracked
  /\ sizeofT = 3
  /\ last.op = "push_back"
  /\ Pushes = min_elements + 1
  /\ GrewWhenFull
  /\ PreVec.element_capacity = min_elements
  /\ RequestedGrowth
  /\ Grown.element_capacity > 2 * min_elements

-----------------------------------------------------------------------------
(* Further properties of the vector, checked under Spec *)

\* C17: across any call other than clear and destruction, the capacity() of
\* every vector that lives before and after the call is at least what it was.
C17_CapacityNeverDecreases ==
  last.op \notin {"init", "clear", "destroy"}
  => \A k \in Vecs :
       (last.pre.vec[k].alive /\ vec[k].alive)
       => vec[k].v.element_capacity >= last.pre.vec[k].v.element_capacity

\* C18: reserve(n) with n <= capacity() changes nothing and makes no hardware
\* call; reserve(n) with n > capacity() whose region the hardware grants leaves
\* capacity() >= n, and size() and every element below size() as they were.
C18_Reserve ==
  last.op = "reserve"
  => /\ last.offset <= PreVec.element_capacity
          => /\ vec[last.i].v = PreVec
             /\ hw = last.pre.hw
             /\ last.log = <<>>
     /\ (last.offset > PreVec.element_capacity /\ ~AllocDenied(last.log))
          => /\ vec[last.i].v.element_capacity >= last.offset
             /\ SameContents(last.i)

\* C19: insert(pos, value) with pos > size() changes nothing; with
\* pos <= size(), the hardware granting the region if the vector has to grow,
\* size() is one more, index pos reads value, every element that was at an
\* index i >= pos is at i + 1 and every element below pos is as it was.
C19_Insert ==
  last.op = "insert"
  => /\ last.offset > PreVec.element_count
          => /\ vec[last.i].v = PreVec
             /\ hw = last.pre.hw
     /\ (last.offset <= PreVec.element_count /\ ~AllocDenied(last.log))
          => /\ vec[last.i].v.element_count = PreVec.element_count + 1
             /\ Elements(hw, vec[last.i].v)
                  = SeqInsert(Elements(last.pre.hw, PreVec), last.offset, last.src)

\* C20: erase(pos) with pos >= size() changes nothing; with pos < size(),
\* size() is one less, every element that was at an index i > pos is at i - 1,
\* every element below pos is as it was, and capacity() is as it was.
C20_Erase ==
  last.op = "erase"
  => /\ last.offset >= PreVec.element_count
          => /\ vec[last.i].v = PreVec
             /\ hw = last.pre.hw
     /\ last.offset < PreVec.element_count
          => /\ vec[last.i].v.element_count = PreVec.element_count - 1
             /\ Elements(hw, vec[last.i].v)
                  = SeqErase(Elements(last.pre.hw, PreVec), last.offset)
             /\ vec[last.i].v.element_capacity = PreVec.element_capacity

\* C28: a.swap(b) leaves a with the size, the capacity and the elements b had
\* and b with those of a, makes no hardware call, so that it allocates, frees,
\* reads and writes nothing, and a second swap restores both vectors.
C28_Swap ==
  last.op = "swap"
  => /\ vec[last.i].v = last.pre.vec[last.j].v
     /\ vec[last.j].v = last.pre.vec[last.i].v
     /\ Elements(hw, vec[last.i].v) = Elements(last.pre.hw, last.pre.vec[last.j].v)
     /\ Elements(hw, vec[last.j].v) = Elements(last.pre.hw, last.pre.vec[last.i].v)
     /\ hw = last.pre.hw
     /\ last.log = <<>>
     /\ last.i # last.j
          => \E r \in {swap(World(hw, {}, FALSE, 0), vec[last.i].v, vec[last.j].v)} :
               /\ r.v = last.pre.vec[last.i].v
               /\ r.other = last.pre.vec[last.j].v
               /\ HwOf(r.w) = last.pre.hw
               /\ r.w.log = <<>>

\* a vector of two elements and one of three, of different capacities and each
\* with a block mapped, are swapped
C28_Witness ==
  /\ last.op = "swap"
  /\ last.i # last.j
  /\ vec[last.i].v.element_count = min_elements + 1
  /\ vec[last.j].v.element_count = min_elements
  /\ vec[last.i].v.element_capacity > vec[last.j].v.element_capacity
  /\ vec[last.i].v.memory.mapped_ptr # 0
  /\ vec[last.j].v.memory.mapped_ptr # 0
  /\ vec[last.i].v.memory.handle = last.pre.vec[last.j].v.memory.handle
  /\ Elements(hw, vec[last.i].v) # Elements(hw, vec[last.j].v)

\* C21: resize(n, value) with n > size(), the hardware granting the region if
\* the vector has to grow, sets size() to n, every index in [old size, n)
\* reads value and every index below the old size is as it was; with
\* n <= size() it sets size() to n and nothing else, and writes no element.
C21_ResizeValue ==
  last.op = "resize_value"
  => /\ (last.offset > PreVec.element_count /\ ~AllocDenied(last.log))
          => /\ vec[last.i].v.element_count = last.offset
             /\ Elements(hw, vec[last.i].v)
                  = SeqResize(Elements(last.pre.hw, PreVec), last.offset, last.src)
     /\ last.offset <= PreVec.element_count
          => /\ vec[last.i].v = [PreVec EXCEPT !.element_count = last.offset]
             /\ hw = last.pre.hw
             /\ last.log = <<>>

\* C22: pop_back() makes size() one less when it was above 0 and changes
\* nothing when it was 0; it makes no hardware call and writes no byte, so the
\* popped slot keeps its value: a following resize(old size), whatever the
\* hardware then does, gives the vector the size and the elements it had.
C22_PopBack ==
  last.op = "pop_back"
  => /\ PreVec.element_count > 0
          => vec[last.i].v = [PreVec EXCEPT !.element_count = @ - 1]
     /\ PreVec.element_count = 0 => vec[last.i].v = PreVec
     /\ hw = last.pre.hw
     /\ last.log = <<>>
     /\ \A e \in Envs :
          \E r \in {resize(EnvWorld(e), vec[last.i].v, PreVec.element_count)} :
             /\ r.v.element_count = PreVec.element_count
             /\ Elements(HwOf(r.w), r.v) = Elements(last.pre.hw, PreVec)

\* C23: at(pos) signals out-of-range exactly when pos >= size(), and then it
\* makes no hardware call, so reads nothing, and leaves the vector, its
\* mapping window and the hardware as they were; for pos < size() what it
\* returns is the element stored at index pos.
C23_At ==
  last.op = "at"
  => /\ last.thrown <=> last.offset >= PreVec.element_count
     /\ last.thrown
          => /\ last.log = <<>>
             /\ last.ret = 0
             /\ vec = last.pre.vec
             /\ hw = last.pre.hw
             /\ temps = last.pre.temps
     /\ ~last.thrown => last.dest = At(last.pre.hw, PreVec, last.offset)

\* C24: front() or back() on an empty vector is reported to the caller as a
\* precondition violation, so that it returns no value at all, in particular
\* not what an earlier front() or back() left in the static temp.
C24_FrontBackEmpty ==
  (last.op \in {"front", "back"} /\ PreVec.element_count = 0) => last.thrown

\* the byte offset v[pos] passes to read: pos * sizeof(T) as size_t computes it
IndexOffset == Mul(last.offset, sizeofT)

\* C25: v[pos] with any pos, also pos >= size() and pos >= capacity(), touches
\* no byte outside the region of v: the read it issues, at the offset
\* pos * sizeof(T) that size_t arithmetic gives, transfers 0 bytes and makes no
\* hardware call when the vector has no region or the offset is at or past
\* the region end, and otherwise transfers at most region size minus offset
\* bytes, each copied from the region at offset + k; every block it maps is a
\* block of the region of v, and no byte of any region changes.
C25_IndexInRegion ==
  last.op = "index"
  => /\ hw.mem = last.pre.hw.mem
     /\ hw.bad = last.pre.hw.bad
     /\ \A k \in 1..Len(last.log) :
          /\ last.log[k][1] # "map_invalid"
          /\ last.log[k][1] = "map"
               => /\ last.log[k][2] = PreVec.memory.handle
                  /\ (last.log[k][3] + 1) * ESP_HIMEM_BLKSZ <= PreVec.memory.size
     /\ (PreVec.memory.handle = 0 \/ IndexOffset >= PreVec.memory.size)
          => /\ last.ret = 0
             /\ last.log = <<>>
             /\ last.dest = last.pre.temps["index"]
     /\ (PreVec.memory.handle # 0 /\ IndexOffset < PreVec.memory.size)
          => /\ last.ret <= Min(sizeofT, PreVec.memory.size - IndexOffset)
             /\ \A k \in 1..sizeofT :
                  last.dest[k] =
                    IF k <= last.ret
                    THEN last.pre.hw.mem[PreVec.memory.handle].data[IndexOffset + k]
                    ELSE last.pre.temps["index"][k]

\* v[pos] with pos >= capacity() and the element lying across the region end:
\* only the bytes up to the region end are transferred
C25_Witness ==
  /\ last.op = "index"
  /\ last.offset >= PreVec.element_capacity
  /\ PreVec.memory.handle # 0
  /\ IndexOffset < PreVec.memory.size
  /\ IndexOffset + sizeofT > PreVec.memory.size
  /\ last.ret = PreVec.memory.size - IndexOffset
  /\ HwCalls(last.log, "map") > 0

\* C26: element access is by value: what the caller obtained from at,
\* operator[], front or back still is the value the caller last saw or gave
\* it, whatever accessor or mutation was called since on any vector, and
\* giving it a new value changes no vector and no byte of any region.
C26_ByValue ==
  /\ ghost.fn # "none" => temps[ghost.fn] = ghost.value
  /\ last.op = "modify" => (vec = last.pre.vec /\ hw = last.pre.hw)

\* the two vectors the last call compared, as they were before it
PreLhs == last.pre.vec[last.i].v
PreRhs == last.pre.vec[last.j].v

\* C27: a == b is true exactly when a.size() = b.size() and a[i] = b[i] for
\* every i < size(); so a == a is true, a == b and b == a agree, and vectors
\* that differ in length or in one element are unequal.  a != b is the
\* negation of a == b by definition.
C27_Equality ==
  last.op = "equals"
  => ((last.ret = 1)
        <=> /\ PreLhs.element_count = PreRhs.element_count
            /\ Elements(last.pre.hw, PreLhs) = Elements(last.pre.hw, PreRhs))

\* the regions the hardware granted during the last call
GrantedRegions ==
  {last.log[k][3] : k \in {a \in 1..Len(last.log) :
                             last.log[a][1] = "alloc" /\ last.log[a][3] # 0}}

\* C33: when the growth that reserve(n) asks for reports success, which it
\* does when the hardware grants the new region, the vector owns the new
\* region, the old region was freed once, size() is what it was and every
\* element below size() reads as before, whether or not a block remap was
\* denied while the elements were copied.
C33_GrowthKeepsElements ==
  (last.op = "reserve" /\ GrantedRegions # {})
  => /\ GrantedRegions = {vec[last.i].v.memory.handle}
     /\ hw.mem[vec[last.i].v.memory.handle].live
     /\ vec[last.i].v.memory.handle # PreVec.memory.handle
     /\ PreVec.memory.handle # 0 => ~hw.mem[PreVec.memory.handle].live
     /\ HwCalls(last.log, "free") = Bool(PreVec.memory.handle # 0)
     /\ hw.bad = last.pre.hw.bad
     /\ SameContents(last.i)

\* C37: for every count n of the size type, when resize(n), resize(n, value)
\* or reserve(n) has to grow the vector and the growth reports success,
\* capacity() is at least n afterwards and size() is at most capacity(): the
\* byte size n * sizeof(T) and its rounding to whole blocks do not wrap to a
\* smaller region.
C37_GrowthCoversCount ==
  (/\ last.op \in {"resize", "resize_value", "reserve"}
   /\ last.offset > PreVec.element_capacity
   /\ GrantedRegions # {})
  => /\ vec[last.i].v.element_capacity >= last.offset
     /\ vec[last.i].v.memory.size >= last.offset * sizeofT
     /\ vec[last.i].v.element_count <= vec[last.i].v.element_capacity

\* C38: a = b with b.size() > a.capacity(), when the hardware denies the
\* region a needs, leaves a with size() 0, so that none of its previous
\* elements is within size(), with the capacity and the region it had, which
\* is not freed and keeps its bytes, and leaves b as it was.
C38_DeniedCopyAssign ==
  (/\ last.op = "copy_assign"
   /\ last.i # last.j
   /\ PreRhs.element_count > PreVec.element_capacity
   /\ AllocDenied(last.log))
  => /\ vec[last.i].v.element_count = 0
     /\ vec[last.i].v.element_capacity = PreVec.element_capacity
     /\ vec[last.i].v.memory = PreVec.memory
     /\ PreVec.memory.handle # 0 => hw.mem[PreVec.memory.handle].live
     /\ HwCalls(last.log, "free") = 0
     /\ hw = last.pre.hw
     /\ vec[last.j].v = PreRhs
     /\ Elements(hw, vec[last.j].v) = Elements(last.pre.hw, PreRhs)

\* a vector of two elements is assigned one of three and the region is denied
C38_Witness ==
  /\ last.op = "copy_assign"
  /\ last.i # last.j
  /\ PreVec.element_count = min_elements
  /\ PreVec.memory.handle # 0
  /\ PreRhs.element_count = min_elements + 1
  /\ PreRhs.element_count > PreVec.element_capacity
  /\ AllocDenied(last.log)
  /\ vec[last.i].v.element_count = 0
  /\ vec[last.i].v.element_capacity = min_elements

\* a window manager without its mapping state: the region it holds
Region(m) == [handle |-> m.handle, size |-> m.size]

\* C40: at, operator[], front, back and == change no byte of any region and
\* no vector's size or capacity, whether or not the hardware grants the
\* mappings they ask for; of the vectors and the hardware only the mapping
\* changes: which block a vector read has mapped, and the mapping range that
\* goes with it.  Every vector keeps its region, a vector that is not read
\* keeps its mapping too, and the hardware sees no misuse.  size(), capacity()
\* and empty() return fields and change nothing.
C40_ReadOnly ==
  last.op \in Accessors \cup {"equals"}
  => /\ hw.mem = last.pre.hw.mem
     /\ hw.bad = last.pre.hw.bad
     /\ \A k \in Vecs :
          /\ vec[k].alive = last.pre.vec[k].alive
          /\ vec[k].v.element_count = last.pre.vec[k].v.element_count
          /\ vec[k].v.element_capacity = last.pre.vec[k].v.element_capacity
          /\ Region(vec[k].v.memory) = Region(last.pre.vec[k].v.memory)
          /\ k \notin {last.i, last.j} => vec[k] = last.pre.vec[k]
     /\ \A r \in Ranges :
          (hw.rng[r].live /\ hw.rng[r].handle # 0)
            => \E k \in {last.i, last.j} \cap Vecs :
                 \/ hw.rng[r] = last.pre.hw.rng[r]
                 \/ /\ vec[k].v.memory.mapped_ptr = r
                    /\ hw.rng[r].handle = vec[k].v.memory.handle

\* a == b on vectors of three equal elements, read while the hardware grants
\* every mapping: both vectors end with another block mapped than before
C40_Witness ==
  /\ last.op = "equals"
  /\ last.i # last.j
  /\ last.ret = 1
  /\ PreLhs.element_count = min_elements + 1
  /\ HwCalls(last.log, "map") >= 2
  /\ vec[last.i].v.memory.current_mapped_block # PreLhs.memory.current_mapped_block
  /\ vec[last.j].v.memory.current_mapped_block # PreRhs.memory.current_mapped_block
  /\ hw.rng # last.pre.hw.rng

-----------------------------------------------------------------------------
(* Properties of the name registry, checked under SpecRegistry.            *)

\* the registry object before the last call
PreRegistry ==
  [initialized |-> last.pre.initialized, fileData |-> last.pre.fileData]

\* the last call was an open, by an initialized registry, of a missing name
OpenOfMissing ==
  /\ last.op = "open"
  /\ last.pre.initialized
  /\ last.name \notin DOMAIN last.pre.fileData

\* C34: exists(name) is true exactly when the registry is initialized and
\* the name was created by an open with a mode other than FILE_READ and has
\* not been removed since.  open(name, FILE_READ) of a missing name creates
\* no entry; open of a missing name with any other mode creates an empty
\* entry; remove(name) returns true iff exists(name) held before the call,
\* and exists(name) is false after it.
C34_RegistryEntries ==
  /\ \A n \in Names : exists(Registry, n) <=> (initialized /\ n \in ghost)
  /\ last.op = "exists"
       => (last.ret <=> (last.pre.initialized /\ last.name \in last.pre.ghost))
  /\ (OpenOfMissing /\ last.mode = FILE_READ)
       => /\ fileData = last.pre.fileData
          /\ last.file = EmptyFile
  /\ (OpenOfMissing /\ last.mode # FILE_READ)
       => /\ DOMAIN fileData = DOMAIN last.pre.fileData \cup {last.name}
          /\ fileData[last.name].element_count = 0
          /\ fileData[last.name].element_capacity = 0
          /\ fileData[last.name].memory.handle = 0
          /\ \A n \in DOMAIN last.pre.fileData :
                fileData[n] = last.pre.fileData[n]
          /\ last.file.vector = last.name
  /\ last.op = "remove"
       => /\ last.ret <=> exists(PreRegistry, last.name)
          /\ ~exists(Registry, last.name)
          /\ \A n \in Names \ {last.name} :
                exists(Registry, n) <=> exists(PreRegistry, n)

\* a remove that returned true while another name kept its entry, after
\* an open for reading of a removed name would have found nothing
C34_Witness ==
  /\ last.op = "remove"
  /\ last.ret
  /\ last.name \notin ghost
  /\ ghost # {}
  /\ initialized

\* an open for reading of a missing name by an initialized registry
C34_WitnessRead ==
  /\ OpenOfMissing
  /\ last.mode = FILE_READ
  /\ last.pre.ghost # {}

\* C35: while the registry is not initialized (begin not yet called, or its
\* last call returned false), exists and remove return false, open returns
\* an empty file for every name and mode, and none of them adds or removes
\* a registry entry.
C35_NotInitialized ==
  /\ (last.op = "begin" /\ ~last.ret) => ~initialized
  /\ (last.op = "begin" /\ last.ret) => initialized
  /\ last.op \in {"exists", "open", "remove"} =>
        initialized = last.pre.initialized
  /\ (last.op \in {"exists", "remove"} /\ ~last.pre.initialized)
       => /\ last.ret = FALSE
          /\ fileData = last.pre.fileData
  /\ (last.op = "open" /\ ~last.pre.initialized)
       => /\ last.file = EmptyFile
          /\ fileData = last.pre.fileData
  /\ ~initialized =>
        \A n \in Names, mode \in Modes :
           /\ ~exists(Registry, n)
           /\ \A r \in {open(World(hw, {}, FALSE, 0), Registry, n, mode)} :
                 r.file = EmptyFile /\ r.c = Registry
           /\ \A r \in {remove(World(hw, {}, FALSE, 0), Registry, n)} :
                 ~r.ret /\ r.c = Registry

\* an exists of a name that has an entry, asked after a begin that returned
\* false
C35_Witness ==
  /\ last.op = "exists"
  /\ ~last.pre.initialized
  /\ last.name \in DOMAIN fileData

\* a remove of a name that has an entry, by a registry not initialized
C35_WitnessRemove ==
  /\ last.op = "remove"
  /\ ~last.pre.initialized
  /\ last.name \in DOMAIN fileData

====
